---- MODULE Spec2Model ----
(***************************************************************************)
(* The attachment/storage engine ("ActiveStorage") of the admin API:       *)
(* the per-(model, field) upload-policy registry, validation, the          *)
(* conversion pipeline, the provider's blob store and the attachments      *)
(* table, with the operations Attach, Delete, LoadAttachment and           *)
(* RegisterAttachment and the collaborators that call them.                *)
(*                                                                         *)
(* Strings are TLA+ strings; the Go string functions used by the code      *)
(* (filepath.Ext, strings.ToLower, strings.Join, strings.Contains, ...)    *)
(* are operators computed character by character.                          *)
(***************************************************************************)
EXTENDS Integers, Sequences, FiniteSets, TLC

VARIABLES provider, configs, rows, blobs, nextId, nextKey, last, inflight, media

vars == <<provider, configs, rows, blobs, nextId, nextKey, last, inflight, media>>

\* Number of unique storage keys the provider may hand out in one behaviour.
MaxKeys == 2

----------------------------------------------------------------------------
(* Go string functions                                                      *)

UpperChars == "ABCDEFGHIJKLMNOPQRSTUVWXYZ"

LowerChars == "abcdefghijklmnopqrstuvwxyz"

CharAt(s, i) == SubSeq(s, i, i)

\* The lower-case letter of every upper-case ASCII letter.
LowerOf ==
    [c \in {CharAt(UpperChars, i) : i \in 1..26} |->
        CharAt(LowerChars, CHOOSE i \in 1..26 : CharAt(UpperChars, i) = c)]

\* unicode.ToLower on one ASCII character
LowerChar(c) == IF c \in DOMAIN LowerOf THEN LowerOf[c] ELSE c

RECURSIVE ToLower(_)
\* strings.ToLower
ToLower(s) ==
    IF Len(s) = 0 THEN ""
    ELSE ToLower(SubSeq(s, 1, Len(s) - 1)) \o LowerChar(CharAt(s, Len(s)))

\* strings.HasSuffix
HasSuffix(s, suffix) ==
    /\ Len(suffix) <= Len(s)
    /\ SubSeq(s, Len(s) - Len(suffix) + 1, Len(s)) = suffix

\* strings.TrimSuffix
TrimSuffix(s, suffix) ==
    IF Len(suffix) > 0 /\ HasSuffix(s, suffix)
    THEN SubSeq(s, 1, Len(s) - Len(suffix))
    ELSE s

RECURSIVE TrimRight(_, _)
\* strings.TrimRight(s, cutset) for a one-character cutset
TrimRight(s, c) ==
    IF Len(s) > 0 /\ CharAt(s, Len(s)) = c
    THEN TrimRight(SubSeq(s, 1, Len(s) - 1), c)
    ELSE s

\* strings.Contains
Contains(s, substr) ==
    \/ Len(substr) = 0
    \/ \E i \in 1..(Len(s) - Len(substr) + 1) :
          SubSeq(s, i, i + Len(substr) - 1) = substr

RECURSIVE Join(_, _)
\* strings.Join
Join(elems, sep) ==
    IF Len(elems) = 0 THEN ""
    ELSE IF Len(elems) = 1 THEN elems[1]
    ELSE Join(SubSeq(elems, 1, Len(elems) - 1), sep) \o sep \o elems[Len(elems)]

RECURSIVE ExtFrom(_, _)
\* The loop of filepath.Ext: from the end of the path back to the last
\* separator, the suffix beginning at the first dot met.
ExtFrom(path, i) ==
    IF i < 1 \/ CharAt(path, i) = "/" THEN ""
    ELSE IF CharAt(path, i) = "." THEN SubSeq(path, i, Len(path))
    ELSE ExtFrom(path, i - 1)

\* filepath.Ext: the suffix beginning at the final dot of the final path
\* element; empty if there is no dot.
Ext(path) == ExtFrom(path, Len(path))

\* filepath.Join of non-empty clean elements
PathJoin(elems) == Join(elems, "/")

\* membership of a string in a Go slice
InSlice(x, slice) == \E i \in 1..Len(slice) : slice[i] = x

----------------------------------------------------------------------------
(* Media classification (media_utils.go)                                    *)

DetectMediaType(filename) ==
    LET ext == ToLower(Ext(filename))
    IN IF InSlice(ext, <<".jpg", ".jpeg", ".png", ".gif", ".webp", ".bmp",
                         ".tiff", ".tif", ".svg">>) THEN "image"
       ELSE IF InSlice(ext, <<".mp4", ".mov", ".avi", ".mkv", ".webm", ".flv",
                              ".wmv", ".m4v", ".mpeg", ".mpg">>) THEN "video"
       ELSE IF InSlice(ext, <<".mp3", ".wav", ".flac", ".aac", ".m4a", ".ogg",
                              ".wma", ".opus">>) THEN "audio"
       ELSE IF InSlice(ext, <<".pdf", ".doc", ".docx", ".xls", ".xlsx", ".ppt",
                              ".pptx", ".txt", ".csv">>) THEN "document"
       ELSE "other"

GetTargetFormat(mediaType) ==
    CASE mediaType = "image" -> "webp"
      [] mediaType = "video" -> "webm"
      [] mediaType = "audio" -> "opus"
      [] OTHER -> ""

ShouldConvert(filename) ==
    LET ext == ToLower(Ext(filename))
        targetFormat == GetTargetFormat(DetectMediaType(filename))
    IN IF targetFormat = "" THEN FALSE ELSE ext # "." \o targetFormat

----------------------------------------------------------------------------
(* Converters                                                               *)

IsImageFile(filename) ==
    InSlice(ToLower(Ext(filename)),
            <<".jpg", ".jpeg", ".png", ".bmp", ".tiff", ".tif", ".webp">>)

IsVideoFile(filename) ==
    InSlice(ToLower(Ext(filename)),
            <<".mp4", ".mov", ".avi", ".mkv", ".flv", ".wmv", ".webm", ".m4v",
              ".mpeg", ".mpg">>)

IsAudioFile(filename) ==
    InSlice(ToLower(Ext(filename)),
            <<".mp3", ".wav", ".flac", ".aac", ".m4a", ".ogg", ".wma", ".opus">>)

\* One entry of the record of calls an operation made.
Call(name, arg) == [call |-> name, arg |-> arg]

\* The value of a nil []byte.
NilData == [kind |-> "nil", of |-> "", len |-> 0]

\* The bytes of an uploaded multipart file (read through file.Open()).
OriginalData(file) == [kind |-> "original", of |-> file.Filename, len |-> file.Size]

\* ConvertToWebP(file): data, filename, err and the calls it made.
\* env.fault names the step of the surrounding call that the environment
\* makes fail ("open": file.Open, "convert": decoding or encoding);
\* env.clen is len(buf.Bytes()).
ConvertToWebP(file, env) ==
    IF ~IsImageFile(file.Filename)
    THEN [data |-> NilData, filename |-> file.Filename, err |-> "", calls |-> <<>>]
    ELSE IF ToLower(Ext(file.Filename)) = ".webp"
    THEN [data |-> NilData, filename |-> file.Filename, err |-> "", calls |-> <<>>]
    ELSE IF env.fault = "open"
    THEN [data |-> NilData, filename |-> "", err |-> "failed to open file",
          calls |-> <<Call("file.Open", "")>>]
    ELSE IF env.fault = "convert"
    THEN [data |-> NilData, filename |-> "", err |-> "failed to decode image",
          calls |-> <<Call("file.Open", ""), Call("image.Decode", "")>>]
    ELSE [data |-> [kind |-> "webp", of |-> file.Filename, len |-> env.clen],
          filename |-> TrimSuffix(file.Filename, Ext(file.Filename)) \o ".webp",
          err |-> "",
          calls |-> <<Call("file.Open", ""), Call("image.Decode", ""), Call("webp.Encode", "")>>]

\* The os.Remove calls deferred by a conversion that removes only its input
\* file when it returns.
DeferredRemoves_InputOnly(created) ==
    IF Len(created) = 0 THEN <<>> ELSE <<Call("os.Remove", created[1])>>

\* The os.Remove calls a conversion deferred, run when it returns, last
\* deferred first: one for every temporary file it created.
DeferredRemoves(created) ==
    [i \in 1..Len(created) |-> Call("os.Remove", created[Len(created) + 1 - i])]

\* The body of ConvertToWebM / ConvertToOpus from exec.LookPath on: the
\* data, filename and error returned, the calls made and the temporary
\* files created, in order. An os.CreateTemp that fails is recorded with an
\* empty name. Faults: "noffmpeg" (LookPath finds no encoder), "mktemp",
\* "open", "copy", "mktempout", "convert" (the encoder exits non-zero),
\* "timeout" (the encoder is killed at the deadline), "read".
FfmpegBody(file, env, kind, targetExt) ==
    LET in == kind \o "-input"
        out == kind \o "-output"
        failed(err, calls, created) ==
            [data |-> NilData, filename |-> "", err |-> err, calls |-> calls,
             created |-> created]
        c1 == <<Call("exec.LookPath", "")>>
        c2 == Append(c1, Call("os.CreateTemp", in))
        c3 == Append(c2, Call("file.Open", ""))
        c4 == Append(c3, Call("tmpInput.ReadFrom", ""))
        c5 == Append(c4, Call("os.CreateTemp", out))
        c6 == Append(c5, Call("ffmpeg", ""))
        c7 == Append(c6, Call("os.ReadFile", out))
    IN IF env.fault = "noffmpeg" THEN failed("ffmpeg not found", c1, <<>>)
       ELSE IF env.fault = "mktemp"
       THEN failed("failed to create temp input file",
                   Append(c1, Call("os.CreateTemp", "")), <<>>)
       ELSE IF env.fault = "open" THEN failed("failed to open file", c3, <<in>>)
       ELSE IF env.fault = "copy" THEN failed("failed to write temp file", c4, <<in>>)
       ELSE IF env.fault = "mktempout"
       THEN failed("failed to create temp output file",
                   Append(c4, Call("os.CreateTemp", "")), <<in>>)
       ELSE IF env.fault = "convert"
       THEN failed("ffmpeg conversion failed", c6, <<in, out>>)
       ELSE IF env.fault = "timeout"
       THEN failed("ffmpeg conversion failed",
                   Append(c6, Call("ctx.Done", "kill")), <<in, out>>)
       ELSE IF env.fault = "read"
       THEN failed("failed to read converted file", c7, <<in, out>>)
       ELSE [data |-> [kind |-> SubSeq(targetExt, 2, Len(targetExt)),
                       of |-> file.Filename, len |-> env.clen],
             filename |-> TrimSuffix(file.Filename, Ext(file.Filename)) \o targetExt,
             err |-> "", calls |-> c7, created |-> <<in, out>>]

\* The conversion and, on its return, the deferred removes.
FfmpegRun(file, env, kind, targetExt) ==
    LET returned(b) == [data |-> b.data, filename |-> b.filename, err |-> b.err,
                        calls |-> b.calls \o DeferredRemoves(b.created)]
    IN returned(FfmpegBody(file, env, kind, targetExt))

\* ConvertToWebM that skips the conversion when no encoder is installed and
\* lets the original file through.
ConvertToWebM_SkipWithoutEncoder(file, env) ==
    IF ~IsVideoFile(file.Filename)
    THEN [data |-> NilData, filename |-> file.Filename, err |-> "", calls |-> <<>>]
    ELSE IF ToLower(Ext(file.Filename)) = ".webm"
    THEN [data |-> NilData, filename |-> file.Filename, err |-> "", calls |-> <<>>]
    ELSE IF env.fault = "noffmpeg"
    THEN [data |-> NilData, filename |-> file.Filename, err |-> "",
          calls |-> <<Call("exec.LookPath", "")>>]
    ELSE FfmpegRun(file, env, "video", ".webm")

\* ConvertToWebM(file): nothing to do for a file that is no video or is
\* already .webm; else the encoder run.
ConvertToWebM(file, env) ==
    IF ~IsVideoFile(file.Filename)
    THEN [data |-> NilData, filename |-> file.Filename, err |-> "", calls |-> <<>>]
    ELSE IF ToLower(Ext(file.Filename)) = ".webm"
    THEN [data |-> NilData, filename |-> file.Filename, err |-> "", calls |-> <<>>]
    ELSE FfmpegRun(file, env, "video", ".webm")

\* ConvertToOpus(file), as ConvertToWebM.
ConvertToOpus(file, env) ==
    IF ~IsAudioFile(file.Filename)
    THEN [data |-> NilData, filename |-> file.Filename, err |-> "", calls |-> <<>>]
    ELSE IF ToLower(Ext(file.Filename)) = ".opus"
    THEN [data |-> NilData, filename |-> file.Filename, err |-> "", calls |-> <<>>]
    ELSE FfmpegRun(file, env, "audio", ".opus")

\* NewImageProcessor(quality).Quality
NewImageProcessor(quality) == IF quality <= 0 \/ quality > 100 THEN 85 ELSE quality

\* NewVideoConverter(quality).Quality
NewVideoConverter(quality) == IF quality < 0 \/ quality > 51 THEN 23 ELSE quality

----------------------------------------------------------------------------
(* Providers                                                                *)

\* The value of a nil Provider.
NilProvider == [kind |-> "nil"]

\* awsconfig.LoadDefaultConfig with a static credentials provider: the
\* credentials are stored, not inspected; the call fails only when the
\* environment's shared configuration cannot be loaded (fault "awsconfig").
LoadDefaultConfig(env) ==
    IF env.fault = "awsconfig" THEN "failed to load configuration" ELSE ""

\* NewLocalProvider: the filesystem root and the URL prefix.
NewLocalProvider(config) ==
    [err |-> "",
     provider |-> [kind |-> "local", basePath |-> config.BasePath,
                   baseURL |-> config.BaseURL]]

\* NewS3Provider: endpoint and region default when empty; the error and the
\* provider returned.
NewS3Provider(config, env) ==
    LET endpoint == IF config.Endpoint = "" THEN "s3.amazonaws.com" ELSE config.Endpoint
        region == IF config.Region = "" THEN "us-east-1" ELSE config.Region
    IN IF LoadDefaultConfig(env) # ""
       THEN [err |-> "failed to create AWS config", provider |-> NilProvider]
       ELSE [err |-> "",
             provider |-> [kind |-> "s3",
                           bucket |-> config.Bucket,
                           endpoint |-> endpoint,
                           baseURL |-> config.BaseURL]]

\* NewR2Provider: the error and the provider returned.
NewR2Provider(config, env) ==
    LET endpoint == "https://" \o config.AccountID \o ".r2.cloudflarestorage.com"
    IN IF LoadDefaultConfig(env) # ""
       THEN [err |-> "failed to create R2 config", provider |-> NilProvider]
       ELSE [err |-> "",
             provider |-> [kind |-> "r2",
                           bucket |-> config.Bucket,
                           endpoint |-> endpoint,
                           baseURL |-> config.BaseURL,
                           cdn |-> config.CDN]]

\* r2Provider.GetURL
R2GetURL(p, path) ==
    IF p.cdn # "" THEN TrimRight(p.cdn, "/") \o "/" \o path
    ELSE IF p.baseURL # "" THEN TrimRight(p.baseURL, "/") \o "/" \o path
    ELSE "https://" \o p.endpoint \o "/" \o p.bucket \o "/" \o path

\* s3Provider.GetURL
S3GetURL(p, path) == "https://" \o p.endpoint \o "/" \o p.bucket \o "/" \o path

\* localProvider.GetURL: the URL prefix, then the path relative to the root.
LocalGetURL(p, path) == p.baseURL \o "/" \o path

\* Provider.GetURL, dispatched on the provider the orchestrator owns.
GetURL(p, path) ==
    IF p.kind = "r2" THEN R2GetURL(p, path)
    ELSE IF p.kind = "s3" THEN S3GetURL(p, path)
    ELSE LocalGetURL(p, path)

\* Decimal digits of a small natural number.
Digits(n) == IF n < 10 THEN CharAt("0123456789", n + 1)
             ELSE CharAt("0123456789", (n \div 10) + 1) \o CharAt("0123456789", (n % 10) + 1)

\* generateUniqueFilename: name and extension kept, a token that no earlier
\* call returned injected between them.
generateUniqueFilename(filename, token) ==
    TrimSuffix(filename, Ext(filename)) \o "_" \o Digits(token) \o Ext(filename)

\* r2Provider.Upload / s3Provider.Upload: the key the object is stored under.
UploadKey(uploadPath, filename, token) ==
    uploadPath \o "/" \o generateUniqueFilename(filename, token)

----------------------------------------------------------------------------
(* The orchestrator                                                         *)

EmptyMap == [x \in {} |-> x]

\* The zero Attachment (what a nil *Attachment stands for in `last`).
NoAttachment ==
    [Id |-> 0, ModelType |-> "", ModelId |-> 0, Field |-> "", Filename |-> "",
     Path |-> "", URL |-> "", Size |-> 0, DeletedAt |-> FALSE]

NoFile == [Filename |-> "", Size |-> 0]

\* Rows of the attachments table that are not soft-deleted.
LiveRows == {r \in rows : ~r.DeletedAt}

\* RegisterAttachment that starts a fresh per-model map on every call.
Register_FreshModelMap(cfgs, modelName, config) ==
    LET new == [f \in {config.Field} |-> config]
    IN [m \in DOMAIN cfgs \cup {modelName} |->
            IF m = modelName THEN new ELSE cfgs[m]]

\* as.configs[modelName][config.Field] = config
Register(cfgs, modelName, config) ==
    LET old == IF modelName \in DOMAIN cfgs THEN cfgs[modelName] ELSE EmptyMap
        new == [f \in DOMAIN old \cup {config.Field} |->
                    IF f = config.Field THEN config ELSE old[f]]
    IN [m \in DOMAIN cfgs \cup {modelName} |->
            IF m = modelName THEN new ELSE cfgs[m]]

\* filepath.IsAbs
IsAbs(path) == Len(path) > 0 /\ CharAt(path, 1) = "/"

\* os.Getwd of the process.
Cwd == "/srv/app"

\* NewActiveStorage that treats an unknown provider name as "local".
ActiveStorageNew_DefaultLocal(config, env) ==
    LET c0 == <<Call("os.Getwd", "")>>
        storagePath == IF IsAbs(config.Path) THEN config.Path
                       ELSE PathJoin(<<Cwd, config.Path>>)
        name == ToLower(config.Provider)
        made == IF name = "s3"
                THEN NewS3Provider([APIKey |-> config.APIKey,
                                    APISecret |-> config.APISecret,
                                    AccessKeyID |-> config.APIKey,
                                    AccessKeySecret |-> config.APISecret,
                                    AccountID |-> config.AccountID,
                                    Endpoint |-> config.Endpoint,
                                    Bucket |-> config.Bucket,
                                    BaseURL |-> config.BaseURL,
                                    Region |-> config.Region], env)
                ELSE IF name = "r2"
                THEN NewR2Provider([AccessKeyID |-> config.APIKey,
                                    AccessKeySecret |-> config.APISecret,
                                    AccountID |-> config.AccountID,
                                    Bucket |-> config.Bucket,
                                    BaseURL |-> config.BaseURL,
                                    CDN |-> config.CDN], env)
                ELSE NewLocalProvider([BasePath |-> storagePath,
                                       BaseURL |-> config.BaseURL])
        c1 == Append(c0, Call(IF name = "s3" THEN "NewS3Provider"
                              ELSE IF name = "r2" THEN "NewR2Provider"
                              ELSE "NewLocalProvider", config.Bucket))
    IN IF env.fault = "getwd"
       THEN [err |-> "failed to get working directory",
             provider |-> NilProvider, calls |-> c0]
       ELSE IF made.err # ""
       THEN [err |-> "failed to initialize storage provider",
             provider |-> NilProvider, calls |-> c1]
       ELSE IF env.fault = "migrate"
       THEN [err |-> "failed to migrate attachments table",
             provider |-> NilProvider,
             calls |-> Append(c1, Call("db.AutoMigrate", "attachments"))]
       ELSE [err |-> "", provider |-> made.provider,
             calls |-> Append(c1, Call("db.AutoMigrate", "attachments"))]

\* NewActiveStorage: the error returned, the provider of the object returned
\* (NilProvider when no object is returned) and the calls made. Faults:
\* "getwd" (os.Getwd fails), "awsconfig", "migrate" (AutoMigrate fails).
ActiveStorageNew(config, env) ==
    LET c0 == <<Call("os.Getwd", "")>>
        storagePath == IF IsAbs(config.Path) THEN config.Path
                       ELSE PathJoin(<<Cwd, config.Path>>)
        name == ToLower(config.Provider)
        made == IF name = "local"
                THEN NewLocalProvider([BasePath |-> storagePath,
                                       BaseURL |-> config.BaseURL])
                ELSE IF name = "s3"
                THEN NewS3Provider([APIKey |-> config.APIKey,
                                    APISecret |-> config.APISecret,
                                    AccessKeyID |-> config.APIKey,
                                    AccessKeySecret |-> config.APISecret,
                                    AccountID |-> config.AccountID,
                                    Endpoint |-> config.Endpoint,
                                    Bucket |-> config.Bucket,
                                    BaseURL |-> config.BaseURL,
                                    Region |-> config.Region], env)
                ELSE NewR2Provider([AccessKeyID |-> config.APIKey,
                                    AccessKeySecret |-> config.APISecret,
                                    AccountID |-> config.AccountID,
                                    Bucket |-> config.Bucket,
                                    BaseURL |-> config.BaseURL,
                                    CDN |-> config.CDN], env)
        c1 == Append(c0, Call(IF name = "local" THEN "NewLocalProvider"
                              ELSE IF name = "s3" THEN "NewS3Provider"
                              ELSE "NewR2Provider", config.Bucket))
    IN IF env.fault = "getwd"
       THEN [err |-> "failed to get working directory",
             provider |-> NilProvider, calls |-> c0]
       ELSE IF name \notin {"local", "s3", "r2"}
       THEN [err |-> "unsupported storage provider: " \o config.Provider,
             provider |-> NilProvider, calls |-> c0]
       ELSE IF made.err # ""
       THEN [err |-> "failed to initialize storage provider",
             provider |-> NilProvider, calls |-> c1]
       ELSE IF env.fault = "migrate"
       THEN [err |-> "failed to migrate attachments table",
             provider |-> NilProvider,
             calls |-> Append(c1, Call("db.AutoMigrate", "attachments"))]
       ELSE [err |-> "", provider |-> made.provider,
             calls |-> Append(c1, Call("db.AutoMigrate", "attachments"))]

\* getConfig that, for a model with policies but none for the field, falls
\* back to another field's policy instead of failing.
getConfig_FieldFallback(modelName, field) ==
    IF modelName \notin DOMAIN configs
    THEN [err |-> "no attachment config found for model", config |-> EmptyMap]
    ELSE IF field \notin DOMAIN configs[modelName]
    THEN [err |-> "",
          config |-> configs[modelName][CHOOSE f \in DOMAIN configs[modelName] : TRUE]]
    ELSE [err |-> "", config |-> configs[modelName][field]]

getConfig(modelName, field) ==
    IF modelName \notin DOMAIN configs
    THEN [err |-> "no attachment config found for model", config |-> EmptyMap]
    ELSE IF field \notin DOMAIN configs[modelName]
    THEN [err |-> "no attachment config found for field", config |-> EmptyMap]
    ELSE [err |-> "", config |-> configs[modelName][field]]

\* validateFile with the size comparison off by one (>= for >).
validateFile_SizeInclusive(file, config) ==
    IF file.Size >= config.MaxFileSize
    THEN "file size exceeds maximum allowed size"
    ELSE IF /\ Len(config.AllowedExtensions) > 0
            /\ ~Contains(Join(config.AllowedExtensions, ","),
                         ToLower(Ext(file.Filename)))
    THEN "file extension is not allowed"
    ELSE ""

validateFile(file, config) ==
    IF file.Size > config.MaxFileSize
    THEN "file size exceeds maximum allowed size"
    ELSE IF /\ Len(config.AllowedExtensions) > 0
            /\ ~Contains(Join(config.AllowedExtensions, ","),
                         ToLower(Ext(file.Filename)))
    THEN "file extension is not allowed"
    ELSE ""

\* getSettingBool that returns the default only when there is no row: a
\* failed read yields the zero value.
getSettingBool_FailedReadFalse(settings, key, defaultValue) ==
    IF settings[key] = "absent" THEN defaultValue
    ELSE settings[key] = "true"

\* getSettingBool: settings[key] is "true" or "false" for a readable row;
\* First() returns an error when there is no row ("absent") or the query
\* fails ("error").
getSettingBool(settings, key, defaultValue) ==
    IF settings[key] \in {"absent", "error"} THEN defaultValue
    ELSE settings[key] = "true"

BoolStr(b) == IF b THEN "true" ELSE "false"

\* A converter that was not invoked: convertedData stays nil.
NotConverted == [data |-> NilData, filename |-> "", err |-> "", calls |-> <<>>]

\* Attach, conversion, with every enabled converter invoked whether or not
\* an earlier one returned data; the first data returned is kept.
AttachConvert_EveryConverter(file, env) ==
    LET convertImages == getSettingBool(env.settings, "media_convert_images", TRUE)
        convertVideos == getSettingBool(env.settings, "media_convert_videos", TRUE)
        convertAudio == getSettingBool(env.settings, "media_convert_audio", TRUE)
        c0 == << Call("getSettingBool media_convert_images", BoolStr(convertImages)),
                 Call("getSettingBool media_convert_videos", BoolStr(convertVideos)),
                 Call("getSettingBool media_convert_audio", BoolStr(convertAudio)) >>
        failed(err, calls) ==
            [data |-> NilData, filename |-> "", err |-> err, calls |-> calls]
        made(enabled, name, r) ==
            IF enabled THEN <<Call(name, file.Filename)>> \o r.calls ELSE <<>>
        all(img, vid, aud) ==
            LET c1 == c0 \o made(convertImages, "ConvertToWebP", img)
                c2 == c1 \o made(convertVideos, "ConvertToWebM", vid)
                c3 == c2 \o made(convertAudio, "ConvertToOpus", aud)
                won == IF img.data # NilData THEN img
                       ELSE IF vid.data # NilData THEN vid ELSE aud
            IN IF img.err # "" THEN failed("failed to convert image to webp", c1)
               ELSE IF vid.err # "" THEN failed("failed to convert video to webm", c2)
               ELSE IF aud.err # "" THEN failed("failed to convert audio to opus", c3)
               ELSE [data |-> won.data, filename |-> won.filename, err |-> "",
                     calls |-> c3]
    IN all(IF convertImages THEN ConvertToWebP(file, env) ELSE NotConverted,
           IF convertVideos THEN ConvertToWebM(file, env) ELSE NotConverted,
           IF convertAudio THEN ConvertToOpus(file, env) ELSE NotConverted)

\* Attach, conversion: the three toggles are read, then the converters are
\* tried in the order image, video, audio until one returns data.
AttachConvert(file, env) ==
    LET convertImages == getSettingBool(env.settings, "media_convert_images", TRUE)
        convertVideos == getSettingBool(env.settings, "media_convert_videos", TRUE)
        convertAudio == getSettingBool(env.settings, "media_convert_audio", TRUE)
        c0 == << Call("getSettingBool media_convert_images", BoolStr(convertImages)),
                 Call("getSettingBool media_convert_videos", BoolStr(convertVideos)),
                 Call("getSettingBool media_convert_audio", BoolStr(convertAudio)) >>
        failed(err, calls) ==
            [data |-> NilData, filename |-> "", err |-> err, calls |-> calls]
        afterAudio(aud, c3) ==
            IF aud.err # "" THEN failed("failed to convert audio to opus", c3)
            ELSE [data |-> aud.data, filename |-> aud.filename, err |-> "", calls |-> c3]
        audio(vid, c2) ==
            IF vid.data = NilData /\ convertAudio
            THEN LET tried(aud) ==
                         afterAudio(aud, c2 \o <<Call("ConvertToOpus", file.Filename)>>
                                            \o aud.calls)
                 IN tried(ConvertToOpus(file, env))
            ELSE afterAudio(vid, c2)
        afterVideo(vid, c2) ==
            IF vid.err # "" THEN failed("failed to convert video to webm", c2)
            ELSE audio(vid, c2)
        video(img, c1) ==
            IF img.data = NilData /\ convertVideos
            THEN LET tried(vid) ==
                         afterVideo(vid, c1 \o <<Call("ConvertToWebM", file.Filename)>>
                                            \o vid.calls)
                 IN tried(ConvertToWebM(file, env))
            ELSE afterVideo(img, c1)
        afterImage(img, c1) ==
            IF img.err # "" THEN failed("failed to convert image to webp", c1)
            ELSE video(img, c1)
    IN IF convertImages
       THEN LET tried(img) ==
                    afterImage(img, c0 \o <<Call("ConvertToWebP", file.Filename)>>
                                       \o img.calls)
            IN tried(ConvertToWebP(file, env))
       ELSE afterImage(NotConverted, c0 \o NotConverted.calls)

\* Attach, upload: the converted bytes go through UploadBytes, the original
\* file through Upload; the attachment record is built from the final file.
AttachUpload(config, model, field, file, conv, env) ==
    LET converted == conv.data # NilData
        finalFile == IF converted
                     THEN [Filename |-> conv.filename, Size |-> conv.data.len]
                     ELSE file
        uploadPath == PathJoin(<<config.Path, model.name, field>>)
        key == UploadKey(uploadPath, finalFile.Filename, nextKey)
    IN [err |-> IF ~converted /\ env.fault = "open" THEN "failed to open source file"
                ELSE IF env.fault = "upload" THEN "failed to upload"
                ELSE "",
        call |-> IF converted THEN Call("provider.UploadBytes", key)
                 ELSE Call("provider.Upload", key),
        key |-> key,
        data |-> IF converted THEN conv.data ELSE OriginalData(file),
        attachment |-> [Id |-> 0,
                        ModelType |-> model.name,
                        ModelId |-> model.id,
                        Field |-> field,
                        Filename |-> finalFile.Filename,
                        Path |-> key,
                        URL |-> GetURL(provider, key),
                        Size |-> finalFile.Size,
                        DeletedAt |-> FALSE]]

\* AttachPersist without the compensating delete: a failed insert leaves
\* the uploaded blob and makes no provider call.
AttachPersist_NoCompensation(up, calls, env) ==
    LET uploaded == [p \in DOMAIN blobs \cup {up.key} |->
                        IF p = up.key THEN up.data ELSE blobs[p]]
        attachment == [up.attachment EXCEPT !.Id = nextId]
        c == Append(calls, Call("db.Create", up.key))
    IN IF env.fault \in {"insert", "insert+delete"}
       THEN [err |-> "insert failed", att |-> NoAttachment,
             calls |-> c,
             rows |-> rows,
             blobs |-> uploaded,
             nextId |-> nextId, nextKey |-> nextKey + 1]
       ELSE [err |-> "", att |-> attachment, calls |-> c,
             rows |-> rows \cup {attachment},
             blobs |-> uploaded,
             nextId |-> nextId + 1, nextKey |-> nextKey + 1]

\* Attach, persistence: the record is inserted; if that fails the uploaded
\* blob is deleted, the result of that delete is dropped and the insert
\* error is returned. `up` is the result of the upload, `calls` the calls
\* made so far.
AttachPersist(up, calls, env) ==
    LET uploaded == [p \in DOMAIN blobs \cup {up.key} |->
                        IF p = up.key THEN up.data ELSE blobs[p]]
        attachment == [up.attachment EXCEPT !.Id = nextId]
        c == Append(calls, Call("db.Create", up.key))
    IN IF env.fault \in {"insert", "insert+delete"}
       THEN [err |-> "insert failed", att |-> NoAttachment,
             calls |-> Append(c, Call("provider.Delete", up.key)),
             rows |-> rows,
             blobs |-> IF env.fault = "insert+delete" THEN uploaded ELSE blobs,
             nextId |-> nextId, nextKey |-> nextKey + 1]
       ELSE [err |-> "", att |-> attachment, calls |-> c,
             rows |-> rows \cup {attachment},
             blobs |-> uploaded,
             nextId |-> nextId + 1, nextKey |-> nextKey + 1]

\* Attach that goes on to insert the record when the upload failed.
ActiveStorageAttach_InsertAfterFailedUpload(model, field, file, env) ==
    LET unchanged == [err |-> "", att |-> NoAttachment, calls |-> <<>>,
                      rows |-> rows, blobs |-> blobs,
                      nextId |-> nextId, nextKey |-> nextKey]
        uploaded(up, calls) ==
            AttachPersist(up, Append(calls, up.call), env)
        converted(cfg, conv) ==
            IF conv.err # "" THEN [unchanged EXCEPT !.err = conv.err, !.calls = conv.calls]
            ELSE uploaded(AttachUpload(cfg.config, model, field, file, conv, env),
                          conv.calls)
        validated(cfg, verr) ==
            IF verr # "" THEN [unchanged EXCEPT !.err = verr]
            ELSE converted(cfg, AttachConvert(file, env))
        configured(cfg) ==
            IF cfg.err # "" THEN [unchanged EXCEPT !.err = cfg.err]
            ELSE validated(cfg, validateFile(file, cfg.config))
    IN configured(getConfig(model.name, field))

\* ActiveStorage.Attach: the error and attachment returned, the calls made,
\* and the attachments table, blob store and counters it leaves behind.
ActiveStorageAttach(model, field, file, env) ==
    LET unchanged == [err |-> "", att |-> NoAttachment, calls |-> <<>>,
                      rows |-> rows, blobs |-> blobs,
                      nextId |-> nextId, nextKey |-> nextKey]
        uploaded(up, calls) ==
            IF up.err # ""
            THEN [unchanged EXCEPT !.err = up.err, !.calls = Append(calls, up.call)]
            ELSE AttachPersist(up, Append(calls, up.call), env)
        converted(cfg, conv) ==
            IF conv.err # "" THEN [unchanged EXCEPT !.err = conv.err, !.calls = conv.calls]
            ELSE uploaded(AttachUpload(cfg.config, model, field, file, conv, env),
                          conv.calls)
        validated(cfg, verr) ==
            IF verr # "" THEN [unchanged EXCEPT !.err = verr]
            ELSE converted(cfg, AttachConvert(file, env))
        configured(cfg) ==
            IF cfg.err # "" THEN [unchanged EXCEPT !.err = cfg.err]
            ELSE validated(cfg, validateFile(file, cfg.config))
    IN configured(getConfig(model.name, field))

\* Delete that removes the row first and the blob afterwards: a failing blob
\* delete is reported after the row is gone.
ActiveStorageDelete_RowFirst(attachment, env) ==
    LET deleted == {IF r.Id = attachment.Id THEN [r EXCEPT !.DeletedAt = TRUE] ELSE r :
                       r \in rows}
        c == <<Call("db.Delete", attachment.Path),
               Call("provider.Delete", attachment.Path)>>
    IN IF env.fault = "rowdelete"
       THEN [err |-> "row delete failed",
             calls |-> <<Call("db.Delete", attachment.Path)>>,
             rows |-> rows, blobs |-> blobs]
       ELSE IF env.fault = "blobdelete"
       THEN [err |-> "blob delete failed", calls |-> c,
             rows |-> deleted, blobs |-> blobs]
       ELSE [err |-> "", calls |-> c, rows |-> deleted,
             blobs |-> [p \in DOMAIN blobs \ {attachment.Path} |-> blobs[p]]]

\* ActiveStorage.Delete
ActiveStorageDelete(attachment, env) ==
    IF env.fault = "blobdelete"
    THEN [err |-> "blob delete failed",
          calls |-> <<Call("provider.Delete", attachment.Path)>>,
          rows |-> rows, blobs |-> blobs]
    ELSE
    LET remaining == [p \in DOMAIN blobs \ {attachment.Path} |-> blobs[p]]
        c == <<Call("provider.Delete", attachment.Path),
               Call("db.Delete", attachment.Path)>>
    IN IF env.fault = "rowdelete"
       THEN [err |-> "row delete failed", calls |-> c,
             rows |-> rows, blobs |-> remaining]
       ELSE [err |-> "", calls |-> c,
             rows |-> {IF r.Id = attachment.Id THEN [r EXCEPT !.DeletedAt = TRUE] ELSE r :
                          r \in rows},
             blobs |-> remaining]

\* LoadAttachment that returns the row as stored, URL included.
ActiveStorageLoadAttachment_StoredURL(model, field) ==
    LET matching == {r \in LiveRows : /\ r.ModelType = model.name
                                      /\ r.ModelId = model.id
                                      /\ r.Field = field}
    IN IF matching = {}
       THEN [err |-> "record not found", att |-> NoAttachment]
       ELSE [err |-> "",
             att |-> CHOOSE r \in matching : \A q \in matching : r.Id <= q.Id]

\* ActiveStorage.LoadAttachment: First() returns the matching live row with
\* the smallest primary key.
ActiveStorageLoadAttachment(model, field) ==
    LET matching == {r \in LiveRows : /\ r.ModelType = model.name
                                      /\ r.ModelId = model.id
                                      /\ r.Field = field}
    IN IF matching = {}
       THEN [err |-> "record not found", att |-> NoAttachment]
       ELSE LET first == CHOOSE r \in matching : \A q \in matching : r.Id <= q.Id
            IN [err |-> "", att |-> [first EXCEPT !.URL = GetURL(provider, first.Path)]]

----------------------------------------------------------------------------
(* Inputs                                                                   *)

\* NewUserService: the avatar policy (5 << 20 bytes)
UsersAvatarConfig ==
    [Field |-> "avatar", Path |-> "avatars",
     AllowedExtensions |-> <<".jpg", ".jpeg", ".png", ".gif">>,
     MaxFileSize |-> 5242880, Multiple |-> FALSE]

MediaExtensions ==
    <<".jpg", ".jpeg", ".png", ".heic", ".heif", ".webp", ".mp4", ".mov", ".avi",
      ".mkv", ".webm", ".mp3", ".wav", ".ogg", ".opus">>

\* NewMediaService: the file policy (100 << 20 bytes)
MediaFileConfig ==
    [Field |-> "file", Path |-> "media/files",
     AllowedExtensions |-> MediaExtensions,
     MaxFileSize |-> 104857600, Multiple |-> FALSE]

MediaOriginalFileConfig ==
    [Field |-> "original_file", Path |-> "media/files/originals",
     AllowedExtensions |-> MediaExtensions,
     MaxFileSize |-> 104857600, Multiple |-> FALSE]

\* Owners (Attachable values) and the fields collaborators attach to.
User1 == [name |-> "users", id |-> 1]

Media1 == [name |-> "media", id |-> 1]

Post1 == [name |-> "post", id |-> 1]

\* Rows of the users table that UserService looks up.
UserIds == {1}

\* Rows of the posts table that PostService looks up.
PostIds == {1}

\* Uploaded multipart files: name and header size.
PhotoPng == [Filename |-> "photo.png", Size |-> 5242880]

BigPng == [Filename |-> "big.png", Size |-> 5242881]

AnimGif == [Filename |-> "anim.gif", Size |-> 2048]

Readme == [Filename |-> "README", Size |-> 2048]

DocPdf == [Filename |-> "doc.pdf", Size |-> 10240]

ClipMp4 == [Filename |-> "clip.mp4", Size |-> 4096]

ClipWebm == [Filename |-> "clip.webm", Size |-> 4096]

SongMp3 == [Filename |-> "song.mp3", Size |-> 3072]

SongOpus == [Filename |-> "song.opus", Size |-> 3072]

ScanHeic == [Filename |-> "scan.heic", Size |-> 2048]

ShotPNG == [Filename |-> "SHOT.PNG", Size |-> 2048]

PicJpg == [Filename |-> "pic.Jpg", Size |-> 1024]

\* Lengths an encoder's output may have.
ConvertedSizes == {1024}

SettingKeys == {"media_convert_images", "media_convert_videos", "media_convert_audio"}

\* The settings table as Attach reads it: every key reads as v ("absent":
\* no row).
AllSettings(v) == [k \in SettingKeys |-> v]

\* The settings table with one row, key k holding v.
OneSetting(k, v) == [j \in SettingKeys |-> IF j = k THEN v ELSE "absent"]

\* An environment of one Attach call: the settings rows, the step that
\* fails (if any) and the length of the encoder's output.
AttachEnvs(settingsChoices, faults) ==
    [settings : settingsChoices, fault : faults, clen : ConvertedSizes]

\* The environment of an operation that reads no setting and meets no fault.
NoEnv == [settings |-> AllSettings("absent"), fault |-> "none", clen |-> 0]

\* The storage configurations the process is started with: one R2 bucket,
\* with and without a CDN prefix.
ProviderConfigs ==
    { [Provider |-> "r2", Path |-> "storage", APIKey |-> "key", APISecret |-> "secret",
       AccountID |-> "acct", Endpoint |-> "", Bucket |-> "bkt", Region |-> "",
       BaseURL |-> "https://files.example.com", CDN |-> "https://cdn.example.com/"],
      [Provider |-> "r2", Path |-> "storage", APIKey |-> "key", APISecret |-> "secret",
       AccountID |-> "acct", Endpoint |-> "", Bucket |-> "bkt", Region |-> "",
       BaseURL |-> "https://files.example.com", CDN |-> ""] }

\* A complete storage configuration for a provider name.
FullConfig(name) ==
    [Provider |-> name, Path |-> "storage", APIKey |-> "key", APISecret |-> "secret",
     AccountID |-> "acct", Endpoint |-> "", Bucket |-> "bkt", Region |-> "eu-west-1",
     BaseURL |-> "https://files.example.com/", CDN |-> "https://cdn.example.com//"]

\* The fields a deployment may leave empty.
OptionalFields ==
    {"APIKey", "APISecret", "AccountID", "Bucket", "Region", "BaseURL", "CDN"}

\* Configurations the process may be started with: complete ones for
\* supported and unsupported provider names, object-store ones with one
\* field left empty, and ones with neither CDN prefix nor BaseURL.
StartConfigs ==
    {FullConfig(n) : n \in {"r2", "S3", "s3", "local", "gcs", ""}}
    \cup {[FullConfig(n) EXCEPT ![f] = ""] : n \in {"r2", "s3"}, f \in OptionalFields}
    \cup {[FullConfig(n) EXCEPT !.CDN = "", !.BaseURL = ""] : n \in {"r2", "s3"}}

\* The environment of one NewActiveStorage or RegisterAttachment call: the
\* step that fails (if any), and the configuration it was given.
StartEnv(config, fault) ==
    [settings |-> AllSettings("absent"), fault |-> fault, clen |-> 0,
     config |-> config]

----------------------------------------------------------------------------
(* Operations                                                               *)

\* What the last operation was, what it was given and what it returned.
Last(op, model, field, file, err, calls, att) ==
    [op |-> op, model |-> model, field |-> field, file |-> file,
     err |-> err, calls |-> calls, att |-> att, env |-> NoEnv]

NoModel == [name |-> "", id |-> 0]

\* The request goroutines that may be inside Attach at the same time.
Procs == {1, 2}

\* The media table before any item is created: its live and soft-deleted
\* rows and the next primary key.
NoMedia == [items |-> {}, nextId |-> 1]

\* A goroutine that is not inside Attach. pc is the step an Attach call is
\* at: "upload" (validated and converted, provider upload next), "insert"
\* (uploaded, db.Create next), "done" (returned); "encoding" (inside
\* cmd.Run of a converter, the encoder subprocess running for `elapsed`
\* minutes).
Idle ==
    [pc |-> "idle", model |-> NoModel, field |-> "", file |-> NoFile, env |-> NoEnv,
     config |-> EmptyMap, conv |-> NotConverted, key |-> "",
     attachment |-> NoAttachment, calls |-> <<>>, err |-> "", att |-> NoAttachment,
     overlapped |-> FALSE, elapsed |-> 0]

\* The process was started on an empty database and bucket.
Init ==
    \E c \in ProviderConfigs :
        \E r \in {ActiveStorageNew(c, StartEnv(c, "none"))} :
           /\ provider = r.provider
           /\ configs = EmptyMap
           /\ rows = {}
           /\ blobs = EmptyMap
           /\ nextId = 1
           /\ nextKey = 1
           /\ inflight = [p \in Procs |-> Idle]
           /\ media = NoMedia
           /\ last = [Last("NewActiveStorage", NoModel, "", NoFile, r.err, r.calls,
                           NoAttachment) EXCEPT !.env = StartEnv(c, "none")]

\* The process is started again on the same database and bucket:
\* NewActiveStorage builds the provider and an empty registry, or fails and
\* the process has no storage object.
NewActiveStorageWith(cfgs, faults) ==
    \E c \in cfgs, fault \in faults :
        /\ provider' = ActiveStorageNew(c, StartEnv(c, fault)).provider
        /\ configs' = EmptyMap
        /\ last' = LET r == ActiveStorageNew(c, StartEnv(c, fault))
                   IN [Last("NewActiveStorage", NoModel, "", NoFile, r.err, r.calls,
                            NoAttachment) EXCEPT !.env = StartEnv(c, fault)]
        /\ UNCHANGED <<rows, blobs, nextId, nextKey, inflight, media>>

\* A storage object exists: the last start did not fail.
Running == provider # NilProvider

\* A caller resolves the public URL of a stored path:
\* as.GetProvider().GetURL(path).
GetURLWith(paths) ==
    \E path \in paths :
        /\ Running
        /\ last' = Last("GetURL", NoModel, "", NoFile, "", <<>>,
                        [NoAttachment EXCEPT !.Path = path,
                                             !.URL = GetURL(provider, path)])
        /\ UNCHANGED <<provider, configs, rows, blobs, nextId, nextKey, inflight, media>>

NewActiveStorage == NewActiveStorageWith(ProviderConfigs, {"none"})

\* A service registers a policy: RegisterAttachment(modelName, config).
RegisterAttachmentWith(modelNames, policies) ==
    \E modelName \in modelNames, config \in policies :
        /\ configs' = Register(configs, modelName, config)
        /\ last' = [Last("RegisterAttachment", [name |-> modelName, id |-> 0],
                         config.Field, NoFile, "", <<>>, NoAttachment)
                       EXCEPT !.env = StartEnv(config, "none")]
        /\ UNCHANGED <<provider, rows, blobs, nextId, nextKey, inflight, media>>

NewUserService ==
    /\ configs' = Register(configs, "users", UsersAvatarConfig)
    /\ last' = Last("NewUserService", NoModel, "", NoFile, "", <<>>, NoAttachment)
    /\ UNCHANGED <<provider, rows, blobs, nextId, nextKey, inflight, media>>

NewMediaService ==
    /\ configs' = Register(Register(configs, "media", MediaFileConfig),
                           "media", MediaOriginalFileConfig)
    /\ last' = Last("NewMediaService", NoModel, "", NoFile, "", <<>>, NoAttachment)
    /\ UNCHANGED <<provider, rows, blobs, nextId, nextKey, inflight, media>>

\* A collaborator calls Attach(model, field, file), for a target, a file and
\* an environment of the given sets.
AttachWith(targets, files, envs) ==
    \E t \in targets, file \in files, env \in envs :
        \E r \in {ActiveStorageAttach(t[1], t[2], file, env)} :
           /\ r.nextKey <= MaxKeys + 1
           /\ rows' = r.rows
           /\ blobs' = r.blobs
           /\ nextId' = r.nextId
           /\ nextKey' = r.nextKey
           /\ last' = [Last("Attach", t[1], t[2], file, r.err, r.calls, r.att)
                          EXCEPT !.env = env]
           /\ UNCHANGED <<provider, configs, inflight, media>>

\* A collaborator calls Delete with an attachment it loaded.
DeleteWith(faults) ==
    \E a \in LiveRows, fault \in faults :
        \E r \in {ActiveStorageDelete(a, [fault |-> fault])} :
           /\ rows' = r.rows
           /\ blobs' = r.blobs
           /\ last' = Last("Delete", [name |-> a.ModelType, id |-> a.ModelId],
                           a.Field, NoFile, r.err, r.calls, a)
           /\ UNCHANGED <<provider, configs, nextId, nextKey, inflight, media>>

\* A collaborator calls LoadAttachment(model, field).
LoadAttachmentWith(targets) ==
    \E t \in targets :
        \E r \in {ActiveStorageLoadAttachment(t[1], t[2])} :
           /\ last' = Last("LoadAttachment", t[1], t[2], NoFile, r.err, <<>>, r.att)
           /\ UNCHANGED <<provider, configs, rows, blobs, nextId, nextKey, inflight, media>>

\* UserService.UpdateAvatar(id, avatarFile): db.First finds the user or
\* fails; the result of Attach is wrapped; a failing db.Save (fault "save")
\* is returned after the attachment was stored.
UpdateAvatarWith(ids, files, envs) ==
    \E id \in ids, file \in files, env \in envs :
        IF id \notin UserIds
        THEN /\ last' = Last("UpdateAvatar", [name |-> "users", id |-> id], "avatar",
                             file, "record not found", <<>>, NoAttachment)
             /\ UNCHANGED <<provider, configs, rows, blobs, nextId, nextKey, inflight, media>>
        ELSE LET user == [name |-> "users", id |-> id]
             IN \E r \in {ActiveStorageAttach(user, "avatar", file, env)} :
                /\ r.nextKey <= MaxKeys + 1
                /\ rows' = r.rows
                /\ blobs' = r.blobs
                /\ nextId' = r.nextId
                /\ nextKey' = r.nextKey
                /\ last' = Last("UpdateAvatar", user, "avatar", file,
                                IF r.err # "" THEN "failed to upload avatar"
                                ELSE IF env.fault = "save" THEN "failed to update user"
                                ELSE "",
                                r.calls,
                                IF env.fault = "save" THEN NoAttachment ELSE r.att)
                /\ UNCHANGED <<provider, configs, inflight, media>>

\* The other goroutine.
Peer(p) == CHOOSE q \in Procs : q # p

InsideAttach(q) == inflight[q].pc \in {"upload", "insert"}

\* Goroutine p returns from Attach with this error and attachment.
AttachReturn(p, c, err, att) ==
    /\ inflight' = [inflight EXCEPT ![p] = [c EXCEPT !.pc = "done", !.err = err,
                                                      !.att = att]]
    /\ last' = [Last("Attach", c.model, c.field, c.file, err, c.calls, att)
                   EXCEPT !.env = c.env]

\* Goroutine p enters Attach(model, field, file): getConfig, validateFile,
\* the toggles and the converters, none of which writes shared state.
AttachBegin(targets, files, envs) ==
    \E p \in Procs, t \in targets, file \in files, env \in envs :
        /\ inflight[p].pc \in {"idle", "done"}
        /\ nextKey <= MaxKeys
        /\ \E cfg \in {getConfig(t[1].name, t[2])} :
           LET c == [Idle EXCEPT !.model = t[1], !.field = t[2], !.file = file,
                                 !.env = env, !.overlapped = InsideAttach(Peer(p))]
           IN
           IF cfg.err # "" THEN AttachReturn(p, c, cfg.err, NoAttachment)
           ELSE \E verr \in {validateFile(file, cfg.config)} :
                IF verr # "" THEN AttachReturn(p, c, verr, NoAttachment)
                ELSE \E conv \in {AttachConvert(file, env)} :
                     IF conv.err # ""
                     THEN AttachReturn(p, [c EXCEPT !.calls = conv.calls], conv.err,
                                       NoAttachment)
                     ELSE /\ inflight' =
                               [inflight EXCEPT
                                  ![p] = [c EXCEPT !.pc = "upload",
                                                   !.config = cfg.config,
                                                   !.conv = conv,
                                                   !.calls = conv.calls],
                                  ![Peer(p)].overlapped = @ \/ InsideAttach(Peer(p))]
                          /\ UNCHANGED last
        /\ UNCHANGED <<provider, configs, rows, blobs, nextId, nextKey, media>>

\* Goroutine p uploads: the provider stores the bytes under a fresh key.
AttachUploadStep ==
    \E p \in Procs :
        /\ inflight[p].pc = "upload"
        /\ nextKey <= MaxKeys
        /\ LET c == inflight[p]
           IN \E up \in {AttachUpload(c.config, c.model, c.field, c.file, c.conv, c.env)} :
              LET d == [c EXCEPT !.calls = Append(c.calls, up.call)]
              IN IF up.err # ""
                 THEN /\ AttachReturn(p, d, up.err, NoAttachment)
                      /\ UNCHANGED <<blobs, nextKey>>
                 ELSE /\ blobs' = [k \in DOMAIN blobs \cup {up.key} |->
                                      IF k = up.key THEN up.data ELSE blobs[k]]
                      /\ nextKey' = nextKey + 1
                      /\ inflight' = [inflight EXCEPT
                                        ![p] = [d EXCEPT !.pc = "insert",
                                                         !.key = up.key,
                                                         !.attachment = up.attachment]]
                      /\ UNCHANGED last
        /\ UNCHANGED <<provider, configs, rows, nextId, media>>

\* Goroutine p inserts the record; a failed insert deletes the uploaded blob
\* and returns the insert error.
AttachInsertStep ==
    \E p \in Procs :
        /\ inflight[p].pc = "insert"
        /\ LET c == inflight[p]
               d == [c EXCEPT !.calls = Append(c.calls, Call("db.Create", c.key))]
               attachment == [c.attachment EXCEPT !.Id = nextId]
           IN IF c.env.fault \in {"insert", "insert+delete"}
              THEN /\ AttachReturn(p, [d EXCEPT !.calls =
                                          Append(d.calls, Call("provider.Delete", c.key))],
                                   "insert failed", NoAttachment)
                   /\ blobs' = IF c.env.fault = "insert+delete" THEN blobs
                               ELSE [k \in DOMAIN blobs \ {c.key} |-> blobs[k]]
                   /\ UNCHANGED <<rows, nextId>>
              ELSE /\ AttachReturn(p, d, "", attachment)
                   /\ rows' = rows \cup {attachment}
                   /\ nextId' = nextId + 1
                   /\ UNCHANGED blobs
        /\ UNCHANGED <<provider, configs, nextKey, media>>

\* A row of the media table: its key, type and folder.
MediaRow(id, type, folder) ==
    [Id |-> id, Type |-> type, Folder |-> folder, DeletedAt |-> FALSE]

\* The live rows of the media table.
LiveMedia == {i \in media.items : ~i.DeletedAt}

\* GetById: db.First finds the live row or "media not found".
MediaFound(id) == \E i \in LiveMedia : i.Id = id

\* What Preload(clause.Associations) can load into item.File: a live
\* attachment row of the item (polymorphic:Model joins on model_type and
\* model_id only), nil when there is none.
ItemFile(id) ==
    LET found == {r \in LiveRows : r.ModelType = "media" /\ r.ModelId = id}
    IN IF found = {} THEN {NoAttachment} ELSE found

\* The state as an operation of MediaService leaves it.
MediaState(err, calls, att, rws, blbs, nid, nkey, med) ==
    [err |-> err, calls |-> calls, att |-> att, rows |-> rws, blobs |-> blbs,
     nextId |-> nid, nextKey |-> nkey, media |-> med]

\* The state after Attach when it was called in the state Delete left:
\* Attach only adds to what it finds.
AfterDelete(d, a) ==
    [a EXCEPT !.rows = d.rows \cup (a.rows \ rows),
              !.blobs = [k \in DOMAIN d.blobs \cup (DOMAIN a.blobs \ DOMAIN blobs) |->
                            IF k \in DOMAIN d.blobs THEN d.blobs[k] ELSE a.blobs[k]]]

\* MediaService.Create(req); req.File is `file`, NoFile for a request
\* without a file. Faults: "begin", "create", "save", "commit", "reload" and
\* those of Attach. The media row is written through the transaction, the
\* attachment row and the blob through ActiveStorage's own handle.
MediaCreate(file, env) ==
    LET id == media.nextId
        item == [name |-> "media", id |-> id]
        taken == [media EXCEPT !.nextId = id + 1]
        created == [taken EXCEPT !.items = @ \cup {MediaRow(id, "", "")}]
        c1 == <<Call("tx.Begin", ""), Call("tx.Create", "media")>>
        notAttached == [err |-> "", att |-> NoAttachment, calls |-> <<>>, rows |-> rows,
                        blobs |-> blobs, nextId |-> nextId, nextKey |-> nextKey]
        left(a, err, calls, med) ==
            MediaState(err, calls, NoAttachment, a.rows, a.blobs, a.nextId, a.nextKey, med)
        saved(a, c3) ==
            IF env.fault = "commit"
            THEN left(a, "failed to commit transaction",
                      Append(c3, Call("tx.Commit", "failed")), taken)
            ELSE IF env.fault = "reload"
            THEN left(a, "failed to get media", Append(c3, Call("tx.Commit", "")), created)
            ELSE MediaState("", Append(c3, Call("tx.Commit", "")), a.att, a.rows, a.blobs,
                            a.nextId, a.nextKey, created)
        attached(a, c2) ==
            IF a.err # ""
            THEN left(a, "failed to upload file", Append(c2, Call("tx.Rollback", "")), taken)
            ELSE IF env.fault = "save"
            THEN left(a, "failed to update media with file",
                      Append(Append(c2, Call("tx.Save", "media")), Call("tx.Rollback", "")),
                      taken)
            ELSE saved(a, Append(c2, Call("tx.Save", "media")))
        withFile(a) == attached(a, c1 \o a.calls)
    IN IF env.fault = "begin"
       THEN MediaState("failed to begin transaction", <<Call("tx.Begin", "failed")>>,
                       NoAttachment, rows, blobs, nextId, nextKey, media)
       ELSE IF env.fault = "create"
       THEN MediaState("failed to create media", Append(c1, Call("tx.Rollback", "")),
                       NoAttachment, rows, blobs, nextId, nextKey, media)
       ELSE IF file = NoFile THEN saved(notAttached, c1)
       ELSE withFile(ActiveStorageAttach(item, "file", file, env))

\* The part Update and UpdateFile share: begin, GetById, delete the file the
\* item has (f, NoAttachment for none), attach the new one, save, commit,
\* reload. Update with no file in the request only saves.
MediaReplaceFile(id, f, file, env, saveErr) ==
    LET item == [name |-> "media", id |-> id]
        begun == <<Call("tx.Begin", "")>>
        same(err, calls) ==
            MediaState(err, calls, f, rows, blobs, nextId, nextKey, media)
        nothing == [err |-> "", att |-> NoAttachment, calls |-> <<>>, rows |-> rows,
                    blobs |-> blobs, nextId |-> nextId, nextKey |-> nextKey]
        notDeleted == [err |-> "", calls |-> <<>>, rows |-> rows, blobs |-> blobs]
        left(a, err, calls) ==
            MediaState(err, calls, f, a.rows, a.blobs, a.nextId, a.nextKey, media)
        saved(a, c3) ==
            IF env.fault = "save"
            THEN left(a, saveErr, Append(c3, Call("tx.Rollback", "")))
            ELSE IF env.fault = "commit"
            THEN left(a, "failed to commit transaction",
                      Append(c3, Call("tx.Commit", "failed")))
            ELSE IF env.fault = "reload"
            THEN left(a, "failed to get media", Append(c3, Call("tx.Commit", "")))
            ELSE left(a, "", Append(c3, Call("tx.Commit", "")))
        attached(a, c2) ==
            IF a.err # ""
            THEN left(a, "failed to upload file", Append(c2, Call("tx.Rollback", "")))
            ELSE saved(a, Append(c2, Call("tx.Save", "media")))
        withFile(a, c1) == attached(a, c1 \o a.calls)
        deleted(d) ==
            IF d.err # ""
            THEN MediaState("failed to delete existing file",
                            Append(begun \o d.calls, Call("tx.Rollback", "")), f, d.rows,
                            d.blobs, nextId, nextKey, media)
            ELSE withFile(AfterDelete(d, ActiveStorageAttach(item, "file", file, env)),
                          begun \o d.calls)
    IN IF env.fault = "begin"
       THEN same("failed to begin transaction", <<Call("tx.Begin", "failed")>>)
       ELSE IF ~MediaFound(id)
       THEN same("media not found", Append(begun, Call("tx.Rollback", "")))
       ELSE IF file = NoFile THEN attached(nothing, begun)
       ELSE IF f # NoAttachment THEN deleted(ActiveStorageDelete(f, env))
       ELSE deleted(notDeleted)

\* MediaService.Update(id, req)
MediaUpdate(id, f, file, env) ==
    MediaReplaceFile(id, f, file, env, "failed to update media")

\* MediaService.UpdateFile(ctx, id, file)
MediaUpdateFile(id, f, file, env) ==
    MediaReplaceFile(id, f, file, env, "failed to update media with file")

\* MediaService.Delete(id): GetById, begin, delete the file the item has,
\* delete the item (fault "txdelete"), commit.
MediaDelete(id, f, env) ==
    LET begun == <<Call("tx.Begin", "")>>
        notDeleted == [err |-> "", calls |-> <<>>, rows |-> rows, blobs |-> blobs]
        left(d, err, calls, med) ==
            MediaState(err, calls, f, d.rows, d.blobs, nextId, nextKey, med)
        deleted(d, c2) ==
            IF d.err # "" THEN left(d, "failed to delete file", begun \o d.calls, media)
            ELSE IF env.fault = "txdelete"
            THEN left(d, "failed to delete media", Append(c2, Call("tx.Rollback", "")),
                      media)
            ELSE IF env.fault = "commit"
            THEN left(d, "failed to commit transaction",
                      Append(c2, Call("tx.Commit", "failed")), media)
            ELSE left(d, "", Append(c2, Call("tx.Commit", "")),
                      [media EXCEPT !.items = {IF i.Id = id
                                               THEN [i EXCEPT !.DeletedAt = TRUE]
                                               ELSE i : i \in @}])
        with(d) == deleted(d, Append(begun \o d.calls, Call("tx.Delete", "media")))
    IN IF ~MediaFound(id)
       THEN MediaState("media not found", <<>>, f, rows, blobs, nextId, nextKey, media)
       ELSE IF env.fault = "begin"
       THEN MediaState("failed to begin transaction", <<Call("tx.Begin", "failed")>>,
                       f, rows, blobs, nextId, nextKey, media)
       ELSE IF f # NoAttachment THEN with(ActiveStorageDelete(f, env))
       ELSE with(notDeleted)

\* MediaService.RemoveFile(ctx, id)
MediaRemoveFile(id, f, env) ==
    LET begun == <<Call("tx.Begin", "")>>
        notDeleted == [err |-> "", calls |-> <<>>, rows |-> rows, blobs |-> blobs]
        left(d, err, calls) ==
            MediaState(err, calls, f, d.rows, d.blobs, nextId, nextKey, media)
        committed(d, c2) ==
            IF env.fault = "commit"
            THEN left(d, "failed to commit transaction",
                      Append(c2, Call("tx.Commit", "failed")))
            ELSE IF env.fault = "reload"
            THEN left(d, "failed to get media", Append(c2, Call("tx.Commit", "")))
            ELSE left(d, "", Append(c2, Call("tx.Commit", "")))
        deleted(d) ==
            IF d.err # ""
            THEN left(d, "failed to delete file",
                      Append(begun \o d.calls, Call("tx.Rollback", "")))
            ELSE IF env.fault = "save"
            THEN left(d, "failed to update media",
                      Append(Append(begun \o d.calls, Call("tx.Save", "media")),
                             Call("tx.Rollback", "")))
            ELSE committed(d, Append(begun \o d.calls, Call("tx.Save", "media")))
    IN IF env.fault = "begin"
       THEN MediaState("failed to begin transaction", <<Call("tx.Begin", "failed")>>,
                       f, rows, blobs, nextId, nextKey, media)
       ELSE IF ~MediaFound(id)
       THEN MediaState("media not found", Append(begun, Call("tx.Rollback", "")), f,
                       rows, blobs, nextId, nextKey, media)
       ELSE IF f # NoAttachment THEN deleted(ActiveStorageDelete(f, env))
       ELSE committed(notDeleted, begun)

\* strings.HasPrefix
HasPrefix(s, prefix) ==
    Len(prefix) <= Len(s) /\ SubSeq(s, 1, Len(prefix)) = prefix

\* strings.TrimPrefix
TrimPrefix(s, prefix) ==
    IF HasPrefix(s, prefix) THEN SubSeq(s, Len(prefix) + 1, Len(s)) ELSE s

\* The position of the last "/" of a path, 0 when it has none.
LastSlash(path) ==
    LET at == {i \in 1..Len(path) : CharAt(path, i) = "/"}
    IN IF at = {} THEN 0 ELSE CHOOSE i \in at : \A j \in at : j <= i

\* filepath.Base, for a path without a trailing slash
Base(path) ==
    IF path = "" THEN "." ELSE SubSeq(path, LastSlash(path) + 1, Len(path))

\* filepath.Dir, for a clean path
Dir(path) ==
    IF LastSlash(path) = 0 THEN "."
    ELSE IF LastSlash(path) = 1 THEN "/"
    ELSE SubSeq(path, 1, LastSlash(path) - 1)

RECURSIVE FolderPaths(_, _)
\* The folders ensureFolderHierarchy walks for a directory path, outermost
\* first: the path up to each "/" and the path itself, empty parts skipped.
FolderPaths(path, n) ==
    IF n > Len(path) THEN <<>>
    ELSE IF CharAt(path, n) # "/" /\ (n = Len(path) \/ CharAt(path, n + 1) = "/")
    THEN <<SubSeq(path, 1, n)>> \o FolderPaths(path, n + 1)
    ELSE FolderPaths(path, n + 1)

\* getMediaTypeFromExtension
getMediaTypeFromExtension(filename) ==
    LET ext == ToLower(Ext(filename))
    IN IF ext \in {".jpg", ".jpeg", ".png", ".gif", ".webp", ".svg", ".bmp", ".tiff",
                   ".tif"} THEN "image"
       ELSE IF ext \in {".mp3", ".wav", ".ogg", ".m4a", ".flac"} THEN "audio"
       ELSE IF ext \in {".mp4", ".webm", ".mov", ".avi", ".mkv"} THEN "video"
       ELSE "other"

\* attachmentExists that returns true for a count it could not read.
attachmentExists_FailedCountSkips(path, st) ==
    \/ st.fault = "count"
    \/ \E r \in st.rows : ~r.DeletedAt /\ r.Path = path

\* attachmentExists(path): the count of the rows with this path that the
\* query sees; the error of the query is dropped, so a failed Count (fault
\* "count") leaves the count 0.
attachmentExists(path, st) ==
    /\ st.fault # "count"
    /\ \E r \in st.rows : ~r.DeletedAt /\ r.Path = path

RECURSIVE ensureFolders(_, _)
\* ensureFolderHierarchy over the folders of a path: a folder in the cache
\* or in the table is reused, any other is created and cached.
ensureFolders(paths, st) ==
    IF paths = <<>> THEN st
    ELSE LET ensured(path) ==
                 IF path \in st.cache THEN st
                 ELSE IF \E i \in st.media.items :
                            ~i.DeletedAt /\ i.Type = "folder" /\ i.Folder = path
                 THEN [st EXCEPT !.cache = @ \cup {path}]
                 ELSE [st EXCEPT !.cache = @ \cup {path},
                                 !.media = [items |-> @.items \cup
                                               {MediaRow(@.nextId, "folder", path)},
                                            nextId |-> @.nextId + 1]]
         IN ensureFolders(Tail(paths), ensured(Head(paths)))

\* processFile(key, relativeKey, size): the folders, the media row, the
\* attachment row, the file reference. Faults: "mediacreate", "attcreate",
\* "update"; a fault is met once.
processFile(key, relativeKey, size, cdnURL, st) ==
    LET filename == Base(relativeKey)
        dirPath == Dir(relativeKey)
        inFolder == dirPath \notin {".", "/", ""}
        met(s) == [s EXCEPT !.fault = "none"]
        referenced(s3) ==
            IF st.fault = "update"
            THEN [err |-> "failed to update media with file reference", st |-> met(s3)]
            ELSE [err |-> "", st |-> s3]
        attached(s2, id) ==
            IF st.fault = "attcreate"
            THEN [err |-> "failed to create attachment", st |-> met(s2)]
            ELSE referenced([s2 EXCEPT
                    !.rows = @ \cup {[Id |-> s2.nextId, ModelType |-> "media",
                                      ModelId |-> id, Field |-> "file",
                                      Filename |-> filename, Path |-> key,
                                      URL |-> cdnURL \o "/" \o key, Size |-> size,
                                      DeletedAt |-> FALSE]},
                    !.nextId = @ + 1])
        inFolders(s1) ==
            IF st.fault = "mediacreate"
            THEN [err |-> "failed to create media record", st |-> met(s1)]
            ELSE attached([s1 EXCEPT
                             !.media = [items |-> @.items \cup
                                           {MediaRow(@.nextId,
                                                     getMediaTypeFromExtension(filename),
                                                     IF inFolder THEN Base(dirPath)
                                                     ELSE "")},
                                        nextId |-> @.nextId + 1]],
                          s1.media.nextId)
    IN IF inFolder /\ dirPath \notin st.cache
       THEN inFolders(ensureFolders(FolderPaths(dirPath, 1), st))
       ELSE inFolders(st)

RECURSIVE SyncObjects(_, _, _, _)
\* The loop of SyncFromR2 over the listed objects: folder markers are
\* passed over, a key with an attachment is counted as skipped, any other
\* is processed and counted as processed or failed.
SyncObjects(objects, prefix, cdnURL, st) ==
    IF objects = <<>> THEN st
    ELSE LET counted(outcome, key, s) ==
                 [s EXCEPT !.calls = Append(@, Call(outcome, key))]
             processed(key, r) ==
                 IF r.err # "" THEN counted("failed", key, r.st)
                 ELSE counted("processed", key, r.st)
             object(key, size) ==
                 IF HasSuffix(key, "/") THEN st
                 ELSE IF attachmentExists(key, st) THEN counted("skipped", key, st)
                 ELSE processed(key,
                                processFile(key,
                                            IF prefix # ""
                                            THEN TrimPrefix(TrimPrefix(key, prefix), "/")
                                            ELSE key,
                                            size, cdnURL,
                                            IF st.fault = "count"
                                            THEN [st EXCEPT !.fault = "none"] ELSE st))
         IN SyncObjects(Tail(objects), prefix, cdnURL,
                        object(Head(objects).key, Head(objects).size))

RECURSIVE Listing(_)
\* listR2Objects: the objects of a set of keys, one after the other.
Listing(keys) ==
    IF keys = {} THEN <<>>
    ELSE LET k == CHOOSE k \in keys : TRUE
         IN <<[key |-> k, size |-> blobs[k].len]>> \o Listing(keys \ {k})

\* MediaService.SyncFromR2(activeStorage, bucket, cdnURL, prefix): the
\* syncer is built for an R2 provider, the bucket is listed (fault "list")
\* and every object is looked at.
SyncFromR2(prefix, cdnURL, env) ==
    LET st == [rows |-> rows, nextId |-> nextId, media |-> media, cache |-> {},
               calls |-> <<>>, fault |-> env.fault]
        returned(done) ==
            MediaState("", done.calls, NoAttachment, done.rows, blobs, done.nextId,
                       nextKey, done.media)
    IN IF provider.kind # "r2"
       THEN MediaState("failed to create R2 syncer", <<>>, NoAttachment, rows, blobs,
                       nextId, nextKey, media)
       ELSE IF env.fault = "list"
       THEN MediaState("failed to list R2 objects", <<>>, NoAttachment, rows, blobs,
                       nextId, nextKey, media)
       ELSE returned(SyncObjects(Listing({k \in DOMAIN blobs : HasPrefix(k, prefix)}),
                                 prefix, TrimRight(cdnURL, "/"), st))

\* The most media rows one behaviour creates.
MaxMedia == 2

\* The most media rows a behaviour with synchronisation creates.
MaxSynced == 3

\* An operation of MediaService, which NewMediaService constructed, returns
\* with this result.
MediaReturn(op, id, file, env, r) ==
    /\ "media" \in DOMAIN configs
    /\ r.nextKey <= MaxKeys + 1
    /\ r.media.nextId <= (IF op = "SyncFromR2" THEN MaxSynced ELSE MaxMedia) + 1
    /\ rows' = r.rows
    /\ blobs' = r.blobs
    /\ nextId' = r.nextId
    /\ nextKey' = r.nextKey
    /\ media' = r.media
    /\ last' = [Last(op, [name |-> "media", id |-> id], "file", file, r.err, r.calls,
                     r.att) EXCEPT !.env = env]
    /\ UNCHANGED <<provider, configs, inflight>>

SyncFromR2With(prefixes, envs) ==
    \E prefix \in prefixes, env \in envs :
        \E r \in {SyncFromR2(prefix, provider.cdn, env)} :
            MediaReturn("SyncFromR2", 0, [Filename |-> prefix, Size |-> 0], env, r)

\* Somebody stores an object in the bucket without going through the
\* program: the objects SyncFromR2 is there to pick up.
BucketPut(keys, sizes) ==
    \E key \in keys, size \in sizes :
        /\ key \notin DOMAIN blobs
        /\ blobs' = [k \in DOMAIN blobs \cup {key} |->
                        IF k = key THEN [kind |-> "original", of |-> key, len |-> size]
                        ELSE blobs[k]]
        /\ last' = Last("BucketPut", NoModel, "", [Filename |-> key, Size |-> size], "",
                        <<>>, NoAttachment)
        /\ UNCHANGED <<provider, configs, rows, nextId, nextKey, inflight, media>>

MediaCreateWith(files, envs) ==
    \E file \in files, env \in envs :
        \E r \in {MediaCreate(file, env)} :
            MediaReturn("Create", media.nextId, file, env, r)

MediaUpdateWith(ids, files, envs) ==
    \E id \in ids, file \in files, env \in envs :
        \E f \in ItemFile(id) :
            \E r \in {MediaUpdate(id, f, file, env)} :
                MediaReturn("Update", id, file, env, r)

MediaUpdateFileWith(ids, files, envs) ==
    \E id \in ids, file \in files, env \in envs :
        \E f \in ItemFile(id) :
            \E r \in {MediaUpdateFile(id, f, file, env)} :
                MediaReturn("UpdateFile", id, file, env, r)

MediaDeleteWith(ids, envs) ==
    \E id \in ids, env \in envs :
        \E f \in ItemFile(id) :
            \E r \in {MediaDelete(id, f, env)} :
                MediaReturn("Delete media", id, NoFile, env, r)

MediaRemoveFileWith(ids, envs) ==
    \E id \in ids, env \in envs :
        \E f \in ItemFile(id) :
            \E r \in {MediaRemoveFile(id, f, env)} :
                MediaReturn("RemoveFile", id, NoFile, env, r)

\* The deadline of the encoder run, in minutes: context.WithTimeout of
\* 10*time.Minute in ConvertToWebM, 3*time.Minute in ConvertToOpus.
EncoderDeadline(file) == IF IsVideoFile(file.Filename) THEN 10 ELSE 3

\* The clock of a run stops being counted here.
ClockCap == 10

\* A run that is started without a deadline: the context never expires.
KilledAt_Never(elapsed, file) == FALSE

\* exec.CommandContext: the context has expired and the subprocess is
\* killed.
KilledAt(elapsed, file) == elapsed >= EncoderDeadline(file)

\* The conversion of this file reaches cmd.Run.
RunsEncoder(file, env) ==
    \E i \in DOMAIN AttachConvert(file, [env EXCEPT !.fault = "none"]).calls :
        AttachConvert(file, [env EXCEPT !.fault = "none"]).calls[i].call = "ffmpeg"

\* Goroutine p enters Attach and goes as far as cmd.Run of the converter:
\* the encoder subprocess is started and Run waits for it. The fault of the
\* environment is what the subprocess will do: "none" (exits 0), "convert"
\* (exits non-zero), "read" (exits 0, the output cannot be read), "timeout"
\* (never exits by itself).
EncodeBegin(p, targets, files, envs) ==
    \E t \in targets, file \in files, env \in envs :
        /\ inflight[p].pc \in {"idle", "done"}
        /\ nextKey <= MaxKeys
        /\ \E cfg \in {getConfig(t[1].name, t[2])} :
           LET c == [Idle EXCEPT !.model = t[1], !.field = t[2], !.file = file,
                                 !.env = env, !.overlapped = InsideAttach(Peer(p))]
           IN
           IF cfg.err # "" THEN AttachReturn(p, c, cfg.err, NoAttachment)
           ELSE \E verr \in {validateFile(file, cfg.config)} :
                IF verr # "" THEN AttachReturn(p, c, verr, NoAttachment)
                ELSE /\ RunsEncoder(file, env)
                     /\ inflight' = [inflight EXCEPT
                                       ![p] = [c EXCEPT !.pc = "encoding",
                                                        !.config = cfg.config]]
                     /\ UNCHANGED last
        /\ UNCHANGED <<provider, configs, rows, blobs, nextId, nextKey, media>>

\* A minute passes while the encoder of goroutine p runs.
EncoderTick ==
    \E p \in Procs :
        /\ inflight[p].pc = "encoding"
        /\ ~KilledAt(inflight[p].elapsed, inflight[p].file)
        /\ inflight[p].elapsed < ClockCap
        /\ inflight' = [inflight EXCEPT ![p].elapsed = @ + 1]
        /\ UNCHANGED <<provider, configs, rows, blobs, nextId, nextKey, last, media>>

\* The encoder of goroutine p exits by itself: cmd.Run returns, the
\* converter returns (its deferred removes run) and Attach goes on to the
\* upload or returns the conversion error.
EncoderExit ==
    \E p \in Procs :
        /\ inflight[p].pc = "encoding"
        /\ inflight[p].env.fault # "timeout"
        /\ LET c == inflight[p]
           IN \E conv \in {AttachConvert(c.file, c.env)} :
              IF conv.err # ""
              THEN AttachReturn(p, [c EXCEPT !.calls = conv.calls], conv.err,
                                NoAttachment)
              ELSE /\ inflight' = [inflight EXCEPT
                                     ![p] = [c EXCEPT !.pc = "upload", !.conv = conv,
                                                      !.calls = conv.calls]]
                   /\ UNCHANGED last
        /\ UNCHANGED <<provider, configs, rows, blobs, nextId, nextKey, media>>

\* The deadline of the run of goroutine p has passed: the subprocess is
\* killed, cmd.Run returns an error, the converter returns it wrapped with
\* the captured stderr and Attach returns without uploading.
EncoderKill ==
    \E p \in Procs :
        /\ inflight[p].pc = "encoding"
        /\ KilledAt(inflight[p].elapsed, inflight[p].file)
        /\ LET c == inflight[p]
           IN \E conv \in {AttachConvert(c.file, [c.env EXCEPT !.fault = "timeout"])} :
              AttachReturn(p, [c EXCEPT !.calls = conv.calls], conv.err, NoAttachment)
        /\ UNCHANGED <<provider, configs, rows, blobs, nextId, nextKey, media>>

\* NewPostService: stores its dependencies; registers no policy.
NewPostService ==
    /\ last' = Last("NewPostService", NoModel, "", NoFile, "", <<>>, NoAttachment)
    /\ UNCHANGED <<provider, configs, rows, blobs, nextId, nextKey, inflight, media>>

\* App.autoDiscoverModules: every module's Init constructs its service
\* before the server starts to serve requests.
autoDiscoverModules ==
    /\ configs = EmptyMap
    /\ configs' = Register(Register(Register(configs, "users", UsersAvatarConfig),
                                    "media", MediaFileConfig),
                           "media", MediaOriginalFileConfig)
    /\ last' = Last("autoDiscoverModules", NoModel, "", NoFile, "", <<>>, NoAttachment)
    /\ UNCHANGED <<provider, rows, blobs, nextId, nextKey, inflight, media>>

\* if as.configs[modelName] == nil { as.configs[modelName] = make(...) }
MakeModelMap(cfgs, modelName) ==
    IF modelName \in DOMAIN cfgs THEN cfgs
    ELSE [m \in DOMAIN cfgs \cup {modelName} |->
              IF m = modelName THEN EmptyMap ELSE cfgs[m]]

\* The RegisterAttachment calls of the module constructors, in the order
\* autoDiscoverModules makes them.
StartupRegistrations ==
    << <<"users", UsersAvatarConfig>>, <<"media", MediaFileConfig>>,
       <<"media", MediaOriginalFileConfig>> >>

RECURSIVE RegistryAfter(_)
\* The registry when the first n of these calls have returned.
RegistryAfter(n) ==
    IF n = 0 THEN EmptyMap
    ELSE Register(RegistryAfter(n - 1), StartupRegistrations[n][1],
                  StartupRegistrations[n][2])

\* One map write of the main goroutine inside autoDiscoverModules: the
\* creation of the model's map or the assignment of the policy.
RegisterWrite ==
    \E n \in 0..(Len(StartupRegistrations) - 1) :
        LET reg == StartupRegistrations[n + 1]
            before == RegistryAfter(n)
            made == MakeModelMap(before, reg[1])
        IN /\ \/ configs = before /\ made # before /\ configs' = made
              \/ configs = made /\ configs' = Register(made, reg[1], reg[2])
           /\ last' = [Last("RegisterAttachment", [name |-> reg[1], id |-> 0],
                            reg[2].Field, NoFile, "", <<>>, NoAttachment)
                          EXCEPT !.env = StartEnv(reg[2], "none")]
           /\ UNCHANGED <<provider, rows, blobs, nextId, nextKey, inflight, media>>

\* A server that serves requests from the start of the process.
Serving_BeforeModules == TRUE

\* The modules are initialised: the server serves requests.
Serving ==
    configs = Register(Register(Register(EmptyMap, "users", UsersAvatarConfig),
                                "media", MediaFileConfig),
                       "media", MediaOriginalFileConfig)

\* PostService.UploadFeaturedImage(id, file): db.First finds the post or
\* fails; First loads no association, so item.FeaturedImage is nil and no
\* Delete is made; the error of Attach is returned as it is; a failing
\* association Replace (fault "save") is returned after the attachment was
\* stored.
UploadFeaturedImageWith(ids, files, envs) ==
    \E id \in ids, file \in files, env \in envs :
        IF id \notin PostIds
        THEN /\ last' = Last("UploadFeaturedImage", [name |-> "post", id |-> id],
                             "featured_image", file, "record not found", <<>>,
                             NoAttachment)
             /\ UNCHANGED <<provider, configs, rows, blobs, nextId, nextKey, inflight, media>>
        ELSE LET item == [name |-> "post", id |-> id]
             IN \E r \in {ActiveStorageAttach(item, "featured_image", file, env)} :
                /\ r.nextKey <= MaxKeys + 1
                /\ rows' = r.rows
                /\ blobs' = r.blobs
                /\ nextId' = r.nextId
                /\ nextKey' = r.nextKey
                /\ last' = [Last("UploadFeaturedImage", item, "featured_image", file,
                                 IF r.err # "" THEN r.err
                                 ELSE IF env.fault = "save"
                                 THEN "failed to associate featured_image"
                                 ELSE "",
                                 r.calls,
                                 IF env.fault = "save" THEN NoAttachment ELSE r.att)
                               EXCEPT !.env = env]
                /\ UNCHANGED <<provider, configs, inflight, media>>

----------------------------------------------------------------------------
(* Validation and conversion: every file, against the users and media      *)
(* policies, with image conversion on and off.                              *)

ValidationTargets == {<<User1, "avatar">>, <<User1, "file">>, <<Media1, "file">>}

ValidationFiles == {PhotoPng, BigPng, AnimGif, Readme, DocPdf}

ValidationEnvs ==
    AttachEnvs({AllSettings("absent"), OneSetting("media_convert_images", "false")},
               {"none"})

AttachValidated == AttachWith(ValidationTargets, ValidationFiles, ValidationEnvs)

NextValidate ==
    \/ NewUserService
    \/ NewMediaService
    \/ AttachValidated

\* The process is started once, with the CDN configuration.
InitValidate == Init /\ provider.cdn # ""

SpecValidate == InitValidate /\ [][NextValidate]_vars

----------------------------------------------------------------------------
(* The life cycle of attachments of one owner field: attach, replace,       *)
(* load and delete, with every step of the provider and the database able   *)
(* to fail.                                                                 *)

StoreTargets == {<<User1, "avatar">>}

StoreFiles == {PhotoPng, Readme}

StoreEnvs ==
    AttachEnvs({AllSettings("absent")},
               {"none", "upload", "insert", "insert+delete"})

DeleteFaults == {"none", "blobdelete", "rowdelete"}

Attach == AttachWith(StoreTargets, StoreFiles, StoreEnvs)

UpdateAvatar ==
    UpdateAvatarWith(UserIds \cup {2}, {PhotoPng},
                     AttachEnvs({AllSettings("absent")}, {"none", "save"}))

Delete == DeleteWith(DeleteFaults)

LoadAttachment == LoadAttachmentWith(StoreTargets)

Next ==
    \/ NewUserService
    \/ Attach
    \/ UpdateAvatar
    \/ Delete
    \/ LoadAttachment

Spec == Init /\ [][Next]_vars

----------------------------------------------------------------------------
(* Restarts with a changed URL configuration over stored attachments.       *)

AttachStored ==
    AttachWith(StoreTargets, StoreFiles, AttachEnvs({AllSettings("absent")}, {"none"}))

NextURL ==
    \/ NewActiveStorage
    \/ NewUserService
    \/ AttachStored
    \/ LoadAttachment
    \/ Delete

SpecURL == Init /\ [][NextURL]_vars

----------------------------------------------------------------------------
(* Media uploads on a host with and without the encoder binary, with the    *)
(* video and audio toggles on and off.                                      *)

\* The configuration with the CDN prefix.
CdnConfigs == {c \in ProviderConfigs : c.CDN # ""}

EncoderFiles == {ClipMp4, ClipWebm, SongMp3, SongOpus, PhotoPng, ScanHeic}

EncoderEnvs ==
    AttachEnvs({AllSettings("absent"),
                OneSetting("media_convert_videos", "false"),
                OneSetting("media_convert_audio", "false")},
               {"none", "noffmpeg"})

StartOnHost == NewActiveStorageWith(CdnConfigs, {"none", "noffmpeg"})

AttachMedia == AttachWith({<<Media1, "file">>}, EncoderFiles, EncoderEnvs)

NextEncoder ==
    \/ StartOnHost
    \/ NewMediaService
    \/ AttachMedia

SpecEncoder == InitValidate /\ [][NextEncoder]_vars

----------------------------------------------------------------------------
(* Media uploads under every state of the three conversion toggles.         *)

\* Settings tables: every key without a row or false; every key unreadable
\* or true.
ToggleSettings ==
    [SettingKeys -> {"absent", "false"}] \cup [SettingKeys -> {"error", "true"}]

ToggleFiles == {PhotoPng, ClipMp4, SongMp3}

AttachToggled ==
    AttachWith({<<Media1, "file">>}, ToggleFiles, AttachEnvs(ToggleSettings, {"none"}))

NextToggle ==
    \/ NewMediaService
    \/ AttachToggled

SpecToggle == InitValidate /\ [][NextToggle]_vars

----------------------------------------------------------------------------
(* Two requests inside Attach for the same owner and field at once.         *)

RaceFiles == {PhotoPng, AnimGif, BigPng}

AttachBeginRace ==
    AttachBegin(StoreTargets, RaceFiles,
                AttachEnvs({AllSettings("absent")}, {"none", "upload", "insert"}))

NextRace ==
    \/ NewUserService
    \/ AttachBeginRace
    \/ AttachUploadStep
    \/ AttachInsertStep
    \/ LoadAttachment

SpecRace == InitValidate /\ [][NextRace]_vars

----------------------------------------------------------------------------
(* Process starts under every configuration, and URL resolution by the      *)
(* provider each start builds.                                              *)

StartFaults == {"none", "getwd", "awsconfig", "migrate"}

Start == NewActiveStorageWith(StartConfigs, StartFaults)

StoredPaths ==
    {"avatars/users/avatar/photo_1.webp", "media/files/media/file/clip_2.webm", "a.png"}

ResolveURL == GetURLWith(StoredPaths)

NextStart ==
    \/ Start
    \/ ResolveURL

SpecStart == InitValidate /\ [][NextStart]_vars

----------------------------------------------------------------------------
(* The policy registry under registrations in any order, repeated and       *)
(* with changed policies.                                                   *)

RegistryPolicies ==
    {UsersAvatarConfig, MediaFileConfig, MediaOriginalFileConfig,
     [UsersAvatarConfig EXCEPT !.MaxFileSize = 1048576],
     [MediaFileConfig EXCEPT !.Path = "uploads"]}

RegisterAttachment == RegisterAttachmentWith({"users", "media"}, RegistryPolicies)

NextRegistry ==
    \/ RegisterAttachment
    \/ NewUserService
    \/ NewMediaService

SpecRegistry == InitValidate /\ [][NextRegistry]_vars

----------------------------------------------------------------------------
(* The collaborator services of a started server: avatar, media file and    *)
(* featured image uploads.                                                  *)

CollaboratorEnvs == AttachEnvs({AllSettings("absent")}, {"none", "save"})

CollaboratorFiles == {PhotoPng, BigPng, ClipWebm}

UpdateAvatarServed ==
    Serving /\ UpdateAvatarWith(UserIds \cup {2}, CollaboratorFiles, CollaboratorEnvs)

MediaCreateServed ==
    Serving /\ AttachWith({<<Media1, "file">>}, CollaboratorFiles, CollaboratorEnvs)

UploadFeaturedImage ==
    Serving /\ UploadFeaturedImageWith(PostIds \cup {2}, CollaboratorFiles,
                                       CollaboratorEnvs)

LoadAttachmentServed ==
    Serving /\ LoadAttachmentWith({<<User1, "avatar">>, <<Media1, "file">>,
                                    <<Post1, "featured_image">>})

NextCollaborators ==
    \/ NewPostService
    \/ autoDiscoverModules
    \/ UpdateAvatarServed
    \/ MediaCreateServed
    \/ UploadFeaturedImage
    \/ LoadAttachmentServed

SpecCollaborators == InitValidate /\ [][NextCollaborators]_vars

----------------------------------------------------------------------------
(* Extension matching: policies whose entries are written in lower and in   *)
(* upper case, files named in lower and in upper case.                      *)

ExtensionPolicies ==
    {UsersAvatarConfig,
     [UsersAvatarConfig EXCEPT !.AllowedExtensions = <<".PNG", ".Jpg">>]}

ExtensionFiles == {PhotoPng, ShotPNG, PicJpg, AnimGif, DocPdf}

RegisterAvatarPolicy == RegisterAttachmentWith({"users"}, ExtensionPolicies)

AttachNamed ==
    AttachWith(StoreTargets, ExtensionFiles, AttachEnvs({AllSettings("absent")}, {"none"}))

NextExtension ==
    \/ RegisterAvatarPolicy
    \/ AttachNamed

SpecExtension == InitValidate /\ [][NextExtension]_vars

----------------------------------------------------------------------------
(* Attach with every one of its steps able to fail.                         *)

StepTargets == {<<Media1, "file">>}

StepFiles == {PhotoPng, ClipMp4, ClipWebm, DocPdf}

StepEnvs ==
    AttachEnvs({AllSettings("absent")},
               {"none", "open", "convert", "noffmpeg", "upload", "insert"})

AttachStepped == AttachWith(StepTargets, StepFiles, StepEnvs)

NextSteps ==
    \/ NewMediaService
    \/ AttachStepped

SpecSteps == InitValidate /\ [][NextSteps]_vars

----------------------------------------------------------------------------
(* Video and audio conversions with every step of the encoder run able to   *)
(* fail.                                                                    *)

EncoderFaults ==
    {"none", "mktemp", "open", "copy", "mktempout", "convert", "timeout", "read"}

AttachEncoded ==
    AttachWith({<<Media1, "file">>}, {ClipMp4, SongMp3, ClipWebm},
               AttachEnvs({AllSettings("absent")}, EncoderFaults))

NextTemp ==
    \/ NewMediaService
    \/ AttachEncoded

SpecTemp == InitValidate /\ [][NextTemp]_vars

----------------------------------------------------------------------------
(* The encoder run step by step: the subprocess, the clock and the          *)
(* deadline.                                                                *)

\* The goroutine whose encoder runs are followed.
Encoding == 1

EncodeVideo ==
    EncodeBegin(Encoding, {<<Media1, "file">>}, {ClipMp4},
                AttachEnvs({AllSettings("absent")}, {"timeout"}))

EncodeAudio ==
    EncodeBegin(Encoding, {<<Media1, "file">>}, {SongMp3},
                AttachEnvs({AllSettings("absent")}, {"none", "timeout"}))

NextDeadline ==
    \/ NewMediaService
    \/ EncodeVideo
    \/ EncodeAudio
    \/ EncoderTick
    \/ EncoderExit
    \/ EncoderKill
    \/ AttachUploadStep
    \/ AttachInsertStep

\* Time passes, and the runtime delivers the expiry of the context.
SpecDeadline ==
    /\ InitValidate
    /\ [][NextDeadline]_vars
    /\ WF_vars(EncoderTick)
    /\ WF_vars(EncoderKill)

----------------------------------------------------------------------------
(* Startup write by write, then request handlers in two goroutines.         *)

AttachBeginServed ==
    Serving /\ AttachBegin({<<User1, "avatar">>, <<Media1, "file">>}, {PhotoPng},
                           AttachEnvs({AllSettings("absent")}, {"none", "insert"}))

LoadAttachmentStarted ==
    Serving /\ LoadAttachmentWith({<<User1, "avatar">>, <<Media1, "file">>})

NextFreeze ==
    \/ RegisterWrite
    \/ AttachBeginServed
    \/ AttachUploadStep
    \/ AttachInsertStep
    \/ LoadAttachmentStarted

SpecFreeze == InitValidate /\ [][NextFreeze]_vars

----------------------------------------------------------------------------
(* The converter constructors over a range of quality parameters.           *)

MinQuality == -5
MaxQuality == 105

\* A caller constructs an image processor; the parameter is kept as the
\* size of the input, the Quality field as the size of the result.
NewImageProcessorCalled ==
    \E q \in MinQuality..MaxQuality :
        /\ last' = Last("NewImageProcessor", NoModel, "", [NoFile EXCEPT !.Size = q], "",
                        <<>>, [NoAttachment EXCEPT !.Size = NewImageProcessor(q)])
        /\ UNCHANGED <<provider, configs, rows, blobs, nextId, nextKey, inflight, media>>

NewVideoConverterCalled ==
    \E q \in MinQuality..MaxQuality :
        /\ last' = Last("NewVideoConverter", NoModel, "", [NoFile EXCEPT !.Size = q], "",
                        <<>>, [NoAttachment EXCEPT !.Size = NewVideoConverter(q)])
        /\ UNCHANGED <<provider, configs, rows, blobs, nextId, nextKey, inflight, media>>

NextQuality ==
    \/ NewImageProcessorCalled
    \/ NewVideoConverterCalled

SpecQuality == InitValidate /\ [][NextQuality]_vars

----------------------------------------------------------------------------
(* The operations of MediaService on the media table, the attachments table *)
(* and the bucket.                                                          *)

MediaIds == 1..MaxMedia

MediaEnvs(faults) == AttachEnvs({AllSettings("false")}, faults)

MediaCreateCalled ==
    MediaCreateWith({NoFile, PhotoPng},
                    MediaEnvs({"none", "begin", "create", "upload", "save", "commit",
                               "reload"}))

MediaUpdateCalled ==
    MediaUpdateWith(MediaIds, {NoFile, DocPdf},
                    MediaEnvs({"none", "blobdelete", "save"}))

MediaUpdateFileCalled ==
    MediaUpdateFileWith(MediaIds, {ClipWebm},
                        MediaEnvs({"none", "rowdelete", "upload", "commit"}))

MediaDeleteCalled ==
    MediaDeleteWith(MediaIds, MediaEnvs({"none", "blobdelete", "txdelete"}))

MediaRemoveFileCalled ==
    MediaRemoveFileWith(MediaIds, MediaEnvs({"none", "rowdelete", "save"}))

NextMedia ==
    \/ NewMediaService
    \/ MediaCreateCalled
    \/ MediaUpdateCalled
    \/ MediaUpdateFileCalled
    \/ MediaDeleteCalled
    \/ MediaRemoveFileCalled

SpecMedia == InitValidate /\ [][NextMedia]_vars

----------------------------------------------------------------------------
(* The bucket is filled from outside and synchronised into the tables.      *)

ExternalKeys == {"a.png", "ext/b_c.mp4", "ext/"}

SyncFaults == {"none", "list", "count", "attcreate"}

PutObject == BucketPut(ExternalKeys, {2048})

SyncCalled == SyncFromR2With({"", "ext"}, MediaEnvs(SyncFaults))

MediaCreateUploaded == MediaCreateWith({PhotoPng}, MediaEnvs({"none"}))

MediaDeleteSynced == MediaDeleteWith(1..MaxSynced, MediaEnvs({"none"}))

NextSync ==
    \/ NewMediaService
    \/ PutObject
    \/ SyncCalled
    \/ MediaCreateUploaded
    \/ MediaDeleteSynced

SpecSync == InitValidate /\ [][NextSync]_vars

----------------------------------------------------------------------------
(* Properties                                                               *)

\* The last operation made a call of this name.
Made(name) == \E i \in DOMAIN last.calls : last.calls[i].call = name

\* The positions of the calls of this name the last operation made.
ArgsOf(name) == {i \in DOMAIN last.calls : last.calls[i].call = name}

\* A policy is registered for the owner and field of the last operation.
Registered(l) ==
    /\ l.model.name \in DOMAIN configs
    /\ l.field \in DOMAIN configs[l.model.name]

ConfigOf(l) == configs[l.model.name][l.field]

\* C1: a file whose (lower-cased) extension is no entry of the registered
\* AllowedExtensions makes Attach fail before any upload: no provider
\* Upload/UploadBytes call, no insert, no attachment returned.
C1_ExtensionRejected ==
    ( /\ last.op = "Attach"
      /\ Registered(last)
      /\ last.file.Size <= ConfigOf(last).MaxFileSize
      /\ ~InSlice(ToLower(Ext(last.file.Filename)), ConfigOf(last).AllowedExtensions) )
    => /\ last.err = "file extension is not allowed"
       /\ ~Made("provider.Upload")
       /\ ~Made("provider.UploadBytes")
       /\ ~Made("db.Create")
       /\ last.att = NoAttachment

\* C2: a file larger than the registered MaxFileSize makes Attach fail with
\* the size error without converting, uploading or inserting anything; a
\* file of exactly MaxFileSize bytes is not rejected for its size.
C2_SizeLimit ==
    [][ (last'.op = "Attach" /\ Registered(last'))
        => /\ last'.file.Size > ConfigOf(last').MaxFileSize
              => /\ last'.err = "file size exceeds maximum allowed size"
                 /\ last'.calls = <<>>
                 /\ last'.att = NoAttachment
                 /\ rows' = rows
                 /\ blobs' = blobs
           /\ last'.file.Size = ConfigOf(last').MaxFileSize
              => last'.err # "file size exceeds maximum allowed size" ]_vars

C2_Witness ==
    /\ last.op = "Attach"
    /\ Registered(last)
    /\ last.file.Size > ConfigOf(last).MaxFileSize
    /\ last.err = "file size exceeds maximum allowed size"

\* C3: with no policy registered for (model name, field), Attach returns a
\* "no attachment config found" error having made no call at all (no file
\* opened, no setting read, no converter, no provider call) and changes
\* nothing.
C3_ConfigFirst ==
    [][ (last'.op = "Attach" /\ ~Registered(last'))
        => /\ last'.err \in {"no attachment config found for model",
                             "no attachment config found for field"}
           /\ last'.calls = <<>>
           /\ last'.att = NoAttachment
           /\ rows' = rows
           /\ blobs' = blobs ]_vars

C3_Witness ==
    /\ last.op = "Attach"
    /\ last.model.name \in DOMAIN configs
    /\ last.field \notin DOMAIN configs[last.model.name]
    /\ last.err = "no attachment config found for field"

\* C4: there is never more than one live Attachment row for one
\* (ModelType, ModelId, Field) triple.
C4_OneLiveRowPerTriple ==
    \A r1 \in LiveRows, r2 \in LiveRows :
        ( /\ r1.ModelType = r2.ModelType
          /\ r1.ModelId = r2.ModelId
          /\ r1.Field = r2.Field ) => r1 = r2

\* C5: after a successful Delete the blob and the row are gone and
\* LoadAttachment for the same owner and field finds no record.
C5_DeleteThenNotFound ==
    (last.op = "Delete" /\ last.err = "")
    => /\ last.att.Path \notin DOMAIN blobs
       /\ last.att \notin LiveRows
       /\ ActiveStorageLoadAttachment(last.model, last.field).err = "record not found"

\* C6: Delete removes the blob before the row: when the blob delete fails
\* Delete returns that error, issues no row delete and leaves the row live;
\* a row delete is only issued after a blob delete; and no deleted row's
\* blob still exists.
C6_BlobBeforeRow ==
    /\ last.op = "Delete"
       => /\ last.att.Path \in DOMAIN blobs
             => /\ last.err = "blob delete failed"
                /\ ~Made("db.Delete")
                /\ last.att \in LiveRows
          /\ Made("db.Delete")
             => /\ last.calls[1] = Call("provider.Delete", last.att.Path)
                /\ last.att.Path \notin DOMAIN blobs
    /\ \A r \in rows : r.DeletedAt => r.Path \notin DOMAIN blobs

C6_Witness ==
    /\ last.op = "Delete"
    /\ last.err = "blob delete failed"
    /\ last.att \in LiveRows
    /\ last.att.Path \in DOMAIN blobs
    /\ \E r \in rows : r.DeletedAt

\* The key of the upload the last Attach made.
UploadedKey ==
    LET i == CHOOSE j \in DOMAIN last.calls :
                 last.calls[j].call \in {"provider.Upload", "provider.UploadBytes"}
    IN last.calls[i].arg

\* C7: when the insert fails after the upload, Attach makes exactly one
\* provider Delete, for the uploaded key, returns the insert error and
\* leaves no row for that key, also when that delete fails and the blob
\* stays behind.
C7_InsertFailureCompensated ==
    ( /\ last.op = "Attach"
      /\ Made("db.Create")
      /\ \A r \in rows : r.Path # UploadedKey )
    => /\ last.err = "insert failed"
       /\ last.att = NoAttachment
       /\ Cardinality(ArgsOf("provider.Delete")) = 1
       /\ \A i \in ArgsOf("provider.Delete") :
             /\ last.calls[i].arg = UploadedKey
             /\ i = Len(last.calls)

C7_Witness ==
    /\ last.op = "Attach"
    /\ last.err = "insert failed"
    /\ Made("db.Create")
    /\ UploadedKey \in DOMAIN blobs

\* C8: after a successful Attach, LoadAttachment for the same owner and
\* field returns the attachment of that Attach, whose Filename and Size are
\* those of the uploaded bytes.
C8_RoundTrip ==
    (last.op = "Attach" /\ last.err = "")
    => LET loaded == ActiveStorageLoadAttachment(last.model, last.field)
       IN /\ loaded.err = ""
          /\ loaded.att.Id = last.att.Id
          /\ loaded.att.Path = last.att.Path
          /\ loaded.att.Filename = last.att.Filename
          /\ loaded.att.Size = last.att.Size
          /\ loaded.att.Size = blobs[last.att.Path].len

\* C9: a successful LoadAttachment returns the URL the provider resolves
\* for the stored path under its current configuration, whatever URL the
\* row holds, and writes nothing.
C9_URLRecomputed ==
    [][ last'.op = "LoadAttachment"
        => /\ rows' = rows
           /\ blobs' = blobs
           /\ last'.err = ""
              => /\ last'.att.URL = R2GetURL(provider', last'.att.Path)
                 /\ \E r \in rows : /\ r.Id = last'.att.Id
                                    /\ r.Path = last'.att.Path ]_vars

C9_Witness ==
    /\ last.op = "LoadAttachment"
    /\ last.err = ""
    /\ \E r \in rows : /\ r.Id = last.att.Id
                       /\ r.URL # last.att.URL
                       /\ last.att.URL = "https://files.example.com/" \o r.Path

\* C10: an accepted file that DetectMediaType classifies as an image and
\* whose extension is not .webp is, with image conversion enabled, stored
\* under a name ending in .webp, its converted bytes uploaded with
\* UploadBytes.
C10_ImagesBecomeWebP ==
    ( /\ last.op = "Attach"
      /\ last.err = ""
      /\ DetectMediaType(last.file.Filename) = "image"
      /\ ToLower(Ext(last.file.Filename)) # ".webp"
      /\ \E i \in DOMAIN last.calls :
            last.calls[i] = Call("getSettingBool media_convert_images", "true") )
    => /\ HasSuffix(last.att.Filename, ".webp")
       /\ Made("provider.UploadBytes")
       /\ ~Made("provider.Upload")
       /\ blobs[last.att.Path].kind = "webp"

\* The last operation was an Attach of a file its registered policy accepts.
AcceptedAttach(l) ==
    /\ l.op = "Attach"
    /\ Registered(l)
    /\ validateFile(l.file, ConfigOf(l)) = ""

\* The last Attach was given a file of this media type, not yet in this
\* target extension, with this conversion toggle not disabled.
ConversionDue(l, mediaType, targetExt, key) ==
    /\ DetectMediaType(l.file.Filename) = mediaType
    /\ ToLower(Ext(l.file.Filename)) # targetExt
    /\ l.env.settings[key] # "false"

\* C11: with the encoder binary absent, Attach of a video file (not .webm)
\* with video conversion enabled fails with the video conversion error,
\* uploads nothing and inserts nothing; Attach of a file for which no video
\* or audio conversion is due succeeds; and NewActiveStorage succeeds.
C11_MissingEncoder ==
    [][ /\ (AcceptedAttach(last') /\ last'.env.fault = "noffmpeg")
           => /\ ConversionDue(last', "video", ".webm", "media_convert_videos")
                 => /\ last'.err = "failed to convert video to webm"
                    /\ last'.att = NoAttachment
                    /\ \A i \in DOMAIN last'.calls :
                          last'.calls[i].call \notin
                             {"provider.Upload", "provider.UploadBytes", "db.Create"}
                    /\ rows' = rows
                    /\ blobs' = blobs
              /\ ( /\ ~ConversionDue(last', "video", ".webm", "media_convert_videos")
                   /\ ~ConversionDue(last', "audio", ".opus", "media_convert_audio") )
                 => /\ last'.err = ""
                    /\ last'.att \in rows'
        /\ (last'.op = "NewActiveStorage" /\ last'.env.fault = "noffmpeg")
           => /\ last'.err = ""
              /\ provider' # NilProvider ]_vars

C11_Witness ==
    /\ AcceptedAttach(last)
    /\ last.env.fault = "noffmpeg"
    /\ last.file = ClipMp4
    /\ last.err = "failed to convert video to webm"
    /\ \E r \in rows : r.Filename = "clip.mp4"

\* The converter Attach runs for a file of each media type, and its toggle.
ConverterOf ==
    [image |-> [call |-> "ConvertToWebP", key |-> "media_convert_images"],
     video |-> [call |-> "ConvertToWebM", key |-> "media_convert_videos"],
     audio |-> [call |-> "ConvertToOpus", key |-> "media_convert_audio"]]

\* C12: every Attach that passes validation reads each of the three
\* toggles once; each reads true unless its row is readable and false (no
\* row and a failed read give true), whatever the other two hold; and the
\* converter of the file's media type runs exactly when its toggle read
\* true.
C12_TogglesDefaultTrue ==
    AcceptedAttach(last)
    => /\ \A k \in SettingKeys :
             /\ Cardinality(ArgsOf("getSettingBool " \o k)) = 1
             /\ \A i \in ArgsOf("getSettingBool " \o k) :
                   last.calls[i].arg = BoolStr(last.env.settings[k] # "false")
       /\ \A t \in DOMAIN ConverterOf :
             DetectMediaType(last.file.Filename) = t
             => (Made(ConverterOf[t].call)
                   <=> last.env.settings[ConverterOf[t].key] # "false")

C12_Witness ==
    /\ AcceptedAttach(last)
    /\ last.file = PhotoPng
    /\ last.env.settings["media_convert_images"] = "error"
    /\ last.env.settings["media_convert_videos"] = "true"
    /\ Made("ConvertToWebP")
    /\ last.att.Filename = "photo.webp"
    /\ \E r \in rows : r.Filename = "clip.mp4"

\* C13: when two Attach calls for the same owner and field overlapped and
\* both succeeded, LoadAttachment returns the attachment of the call whose
\* insert came last, and no live row refers to the other call's blob.
C13_LastWriteWins ==
    \A p \in Procs :
        LET w == inflight[p]
            l == inflight[Peer(p)]
        IN ( /\ w.pc = "done" /\ l.pc = "done"
             /\ w.err = "" /\ l.err = ""
             /\ w.overlapped /\ l.overlapped
             /\ w.model = l.model /\ w.field = l.field
             /\ w.att.Id > l.att.Id )
           => /\ ActiveStorageLoadAttachment(w.model, w.field).att.Id = w.att.Id
              /\ \A r \in LiveRows : r.Path # l.att.Path

\* The URL the R2 precedence rule gives for a configuration and a path.
R2ExpectedURL(c, path) ==
    IF c.CDN # "" THEN TrimRight(c.CDN, "/") \o "/" \o path
    ELSE IF c.BaseURL # "" THEN TrimRight(c.BaseURL, "/") \o "/" \o path
    ELSE "https://" \o c.AccountID \o ".r2.cloudflarestorage.com/"
            \o c.Bucket \o "/" \o path

\* C14: the URL the R2 provider of a freshly started process resolves for
\* a path is the CDN prefix without trailing slashes, "/" and the path when
\* a CDN prefix is configured; else the BaseURL likewise; else
\* https://<account id>.r2.cloudflarestorage.com/<bucket>/<path>.
C14_R2URLPrecedence ==
    [][ ( /\ last.op = "NewActiveStorage"
          /\ last.err = ""
          /\ provider.kind = "r2"
          /\ last'.op = "GetURL" )
        => last'.att.URL = R2ExpectedURL(last.env.config, last'.att.Path) ]_vars

\* The last operation made no call of these names.
MadeNone(names) == \A i \in DOMAIN last.calls : last.calls[i].call \notin names

ProviderConstructors == {"NewLocalProvider", "NewS3Provider", "NewR2Provider"}

\* C15 as stated: NewActiveStorage with a provider name other than local,
\* s3 or r2 returns the unsupported-provider error and no object, having
\* constructed no provider and migrated nothing.
C15_UnsupportedProvider ==
    ( /\ last.op = "NewActiveStorage"
      /\ last.env.config.Provider \notin {"local", "s3", "r2"} )
    => /\ last.err = "unsupported storage provider: " \o last.env.config.Provider
       /\ provider = NilProvider
       /\ MadeNone(ProviderConstructors \cup {"db.AutoMigrate"})

\* C15, amended: when the working directory can be read, NewActiveStorage
\* with a provider name that is, letter case ignored, none of local, s3 and
\* r2 returns the unsupported-provider error and no object, having
\* constructed no provider and migrated nothing; a name that differs from
\* these only in case is accepted, and a failing os.Getwd is reported first.
C15_UnsupportedProviderAmended ==
    last.op = "NewActiveStorage"
    => /\ ( /\ ToLower(last.env.config.Provider) \notin {"local", "s3", "r2"}
            /\ last.env.fault # "getwd" )
          => /\ last.err = "unsupported storage provider: " \o last.env.config.Provider
             /\ provider = NilProvider
             /\ MadeNone(ProviderConstructors \cup {"db.AutoMigrate"})
       /\ ( /\ ToLower(last.env.config.Provider) \in {"local", "s3", "r2"}
            /\ last.env.fault = "none" )
          => /\ last.err = ""
             /\ provider # NilProvider
       /\ last.env.fault = "getwd"
          => /\ last.err = "failed to get working directory"
             /\ provider = NilProvider

C15_Witness ==
    /\ last.op = "NewActiveStorage"
    /\ last.env.config.Provider = "gcs"
    /\ last.env.fault = "migrate"
    /\ last.err = "unsupported storage provider: gcs"
    /\ provider = NilProvider

\* C16: NewActiveStorage for s3 or r2 with an empty access key, secret,
\* bucket, account id (r2) or region (s3) returns an error and no provider.
C16_MissingCredentialRejected ==
    ( /\ last.op = "NewActiveStorage"
      /\ ToLower(last.env.config.Provider) \in {"s3", "r2"}
      /\ \/ last.env.config.APIKey = ""
         \/ last.env.config.APISecret = ""
         \/ last.env.config.Bucket = ""
         \/ ToLower(last.env.config.Provider) = "r2" /\ last.env.config.AccountID = ""
         \/ ToLower(last.env.config.Provider) = "s3" /\ last.env.config.Region = "" )
    => /\ last.err # ""
       /\ provider = NilProvider

\* The (model, field) pairs a registry has a policy for.
Pairs(cfgs) ==
    {pr \in (DOMAIN cfgs) \X UNION {DOMAIN cfgs[n] : n \in DOMAIN cfgs} :
        pr[2] \in DOMAIN cfgs[pr[1]]}

\* C17: RegisterAttachment(modelName, config) makes config the entry of
\* (modelName, config.Field), adds no other pair, leaves the entry of
\* every other pair as it was, and changes nothing when that config is
\* already the entry.
C17_RegisterUpsert ==
    [][ last'.op = "RegisterAttachment"
        => LET m == last'.model.name
               c == last'.env.config
           IN /\ Pairs(configs') = Pairs(configs) \cup {<<m, c.Field>>}
              /\ configs'[m][c.Field] = c
              /\ \A pr \in Pairs(configs) \ {<<m, c.Field>>} :
                    configs'[pr[1]][pr[2]] = configs[pr[1]][pr[2]]
              /\ (<<m, c.Field>> \in Pairs(configs) /\ configs[m][c.Field] = c)
                    => configs' = configs ]_vars

C17_Witness ==
    /\ last.op = "RegisterAttachment"
    /\ last.model.name = "media"
    /\ last.env.config = [MediaFileConfig EXCEPT !.Path = "uploads"]
    /\ {<<"media", "original_file">>, <<"users", "avatar">>} \subseteq Pairs(configs)
    /\ configs["media"]["file"].Path = "uploads"
    /\ configs["media"]["original_file"] = MediaOriginalFileConfig
    /\ configs["users"]["avatar"] = UsersAvatarConfig

\* C18: whenever a collaborator service calls Attach (media "file", users
\* "avatar", post "featured_image"), a policy is registered for exactly the
\* owner's model name and that field, and the call does not fail for a
\* missing policy.
C18_CollaboratorsRegistered ==
    ( /\ last.op \in {"Attach", "UpdateAvatar", "UploadFeaturedImage"}
      /\ last.err # "record not found" )
    => /\ Registered(last)
       /\ last.err \notin {"no attachment config found for model",
                            "no attachment config found for field"}

\* C19: a file within the size limit passes the extension check of Attach
\* exactly when its lower-cased extension equals the lower-cased form of
\* some whole entry of the registered AllowedExtensions.
C19_CaseInsensitiveMembership ==
    ( /\ last.op = "Attach"
      /\ Registered(last)
      /\ last.file.Size <= ConfigOf(last).MaxFileSize )
    => ( last.err # "file extension is not allowed"
         <=> \E i \in DOMAIN ConfigOf(last).AllowedExtensions :
                ToLower(ConfigOf(last).AllowedExtensions[i])
                   = ToLower(Ext(last.file.Filename)) )

UploadCalls == {"provider.Upload", "provider.UploadBytes"}

ConversionCalls ==
    {"getSettingBool media_convert_images", "getSettingBool media_convert_videos",
     "getSettingBool media_convert_audio", "ConvertToWebP", "ConvertToWebM",
     "ConvertToOpus", "exec.LookPath", "file.Open", "image.Decode", "webp.Encode",
     "ffmpeg", "os.CreateTemp", "tmpInput.ReadFrom", "os.ReadFile", "ctx.Done",
     "os.Remove"}

ConversionErrors ==
    {"failed to convert image to webp", "failed to convert video to webm",
     "failed to convert audio to opus"}

UploadErrors == {"failed to open source file", "failed to upload"}

\* C20: every Attach call goes through config resolution, validation,
\* conversion, upload and insert in this order: a missing policy or a
\* rejected file ends it before any call; the one upload comes after every
\* toggle read and converter call and only if no conversion failed; the one
\* insert comes directly after the upload and only if the upload succeeded;
\* a failing step is the last step made (but for the compensating delete
\* after a failed insert) and its error is returned with no attachment and
\* no new row; an attachment is returned only after the insert succeeded.
C20_StepOrder ==
    [][ last'.op = "Attach"
        => LET l == last'
               at(names) == {i \in DOMAIN l.calls : l.calls[i].call \in names}
               uploads == at(UploadCalls)
               inserts == at({"db.Create"})
           IN /\ ~Registered(l)
                 => /\ l.calls = <<>>
                    /\ l.err \in {"no attachment config found for model",
                                  "no attachment config found for field"}
              /\ (Registered(l) /\ validateFile(l.file, ConfigOf(l)) # "")
                 => /\ l.calls = <<>>
                    /\ l.err = validateFile(l.file, ConfigOf(l))
              /\ Cardinality(uploads) <= 1
              /\ Cardinality(inserts) <= 1
              /\ \A u \in uploads :
                    /\ at(ConversionCalls) = 1..(u - 1)
                    /\ l.err \notin ConversionErrors
              /\ l.err \in ConversionErrors
                 => /\ uploads = {} /\ inserts = {}
                    /\ l.calls[Len(l.calls)].call \in ConversionCalls
              /\ l.err \in UploadErrors
                 => /\ inserts = {}
                    /\ uploads = {Len(l.calls)}
              /\ (uploads # {} /\ l.env.fault = "upload")
                 => l.err = "failed to upload"
              /\ (at({"provider.Upload"}) # {} /\ l.env.fault = "open")
                 => l.err = "failed to open source file"
              /\ \A c \in inserts :
                    /\ uploads = {c - 1}
                    /\ l.err \notin UploadErrors
                    /\ l.calls[c].arg = l.calls[c - 1].arg
                    /\ l.calls[c].arg \in DOMAIN blobs' \/ l.err = "insert failed"
              /\ l.err # ""
                 => /\ l.att = NoAttachment
                    /\ rows' = rows
              /\ l.att # NoAttachment
                 => /\ l.err = ""
                    /\ inserts = {Len(l.calls)}
                    /\ l.att \in rows' \ rows
              /\ l.err = "" => l.att # NoAttachment ]_vars

C20_Witness ==
    /\ last.op = "Attach"
    /\ last.file = PhotoPng
    /\ last.err = "failed to upload"
    /\ Made("ConvertToWebP")
    /\ last.calls[Len(last.calls)].call = "provider.UploadBytes"
    /\ \E r \in rows : r.Filename = "clip.webm"

\* The kind of bytes the last successful Attach stored.
StoredKind == blobs[last.att.Path].kind

\* The toggle of this key was not disabled for the last Attach.
Enabled(key) == last.env.settings[key] # "false"

\* C21: in one Attach call the converters run in the order image, video,
\* audio, each only if its toggle is enabled and no earlier converter
\* returned output; converted output is uploaded with UploadBytes; and if
\* no converter returned output the original file is uploaded with Upload
\* under its original filename and size.
C21_ConversionExclusive ==
    (AcceptedAttach(last) /\ last.err = "")
    => /\ \A i \in ArgsOf("ConvertToWebP"), j \in ArgsOf("ConvertToWebM") : i < j
       /\ \A i \in ArgsOf("ConvertToWebM"), j \in ArgsOf("ConvertToOpus") : i < j
       /\ \A i \in ArgsOf("ConvertToWebP"), j \in ArgsOf("ConvertToOpus") : i < j
       /\ Made("ConvertToWebP") <=> Enabled("media_convert_images")
       /\ Made("ConvertToWebM")
             <=> (Enabled("media_convert_videos") /\ StoredKind # "webp")
       /\ Made("ConvertToOpus")
             <=> (Enabled("media_convert_audio") /\ StoredKind \notin {"webp", "webm"})
       /\ StoredKind = "original"
             => /\ Made("provider.Upload") /\ ~Made("provider.UploadBytes")
                /\ last.att.Filename = last.file.Filename
                /\ last.att.Size = last.file.Size
                /\ blobs[last.att.Path] = OriginalData(last.file)
       /\ StoredKind # "original"
             => /\ Made("provider.UploadBytes") /\ ~Made("provider.Upload")
                /\ last.att.Filename # last.file.Filename

C21_Witness ==
    /\ AcceptedAttach(last)
    /\ last.err = ""
    /\ last.file = PhotoPng
    /\ StoredKind = "webp"
    /\ last.env.settings["media_convert_videos"] = "true"
    /\ ~Made("ConvertToWebM")
    /\ \E r \in rows : r.Filename = "song.mp3"

\* The positions at which the last operation created a temporary file.
TempCreated == {i \in ArgsOf("os.CreateTemp") : last.calls[i].arg # ""}

\* C22: when ConvertToWebM or ConvertToOpus returns, on every exit path,
\* every temporary file it created has been removed: each is removed
\* exactly once, after the last call of the conversion body and before
\* Attach goes on to upload.
C22_TempFilesRemoved ==
    last.op = "Attach"
    => /\ \A i \in TempCreated :
             /\ Cardinality({j \in ArgsOf("os.Remove") :
                                last.calls[j].arg = last.calls[i].arg}) = 1
             /\ \A j \in ArgsOf("os.Remove") : j > i
       /\ \A j \in ArgsOf("os.Remove") :
             /\ \E i \in TempCreated : last.calls[i].arg = last.calls[j].arg
             /\ \A k \in DOMAIN last.calls :
                   last.calls[k].call \in {"ffmpeg", "os.ReadFile", "file.Open",
                                           "tmpInput.ReadFrom", "ctx.Done"} => k < j
             /\ \A k \in DOMAIN last.calls :
                   last.calls[k].call \in UploadCalls => j < k
       /\ (Made("ConvertToWebM") /\ DetectMediaType(last.file.Filename) = "video"
             /\ ToLower(Ext(last.file.Filename)) # ".webm"
             /\ last.env.fault \notin {"mktemp", "noffmpeg"})
          => TempCreated # {}

C22_Witness ==
    /\ last.op = "Attach"
    /\ last.env.fault = "timeout"
    /\ last.file = SongMp3
    /\ Cardinality(TempCreated) = 2
    /\ Cardinality(ArgsOf("os.Remove")) = 2
    /\ last.err = "failed to convert audio to opus"

\* C23: every video or audio conversion eventually returns: a subprocess
\* that has not exited at its deadline (10 minutes for video, 3 for audio)
\* is killed, the call returns the conversion error and Attach fails
\* without uploading.
C23_ConversionReturns ==
    /\ (inflight[Encoding].pc = "encoding") ~> (inflight[Encoding].pc # "encoding")
    /\ [](\A p \in Procs :
             inflight[p].pc = "encoding"
             => inflight[p].elapsed <= EncoderDeadline(inflight[p].file))
    /\ []((last.op = "Attach" /\ Made("ctx.Done"))
           => /\ last.err = (IF IsVideoFile(last.file.Filename)
                             THEN "failed to convert video to webm"
                             ELSE "failed to convert audio to opus")
              /\ last.calls[Len(last.calls) - 3] = Call("ffmpeg", "")
              /\ ~\E i \in DOMAIN last.calls : last.calls[i].call \in UploadCalls
              /\ last.att = NoAttachment
              /\ \A p \in Procs :
                    inflight[p].pc = "done"
                    => inflight[p].elapsed = EncoderDeadline(last.file))

C23_Witness ==
    /\ last.op = "Attach"
    /\ Made("ctx.Done")
    /\ last.file = ClipMp4
    /\ last.env.fault = "timeout"
    /\ inflight[Encoding].pc = "done"
    /\ inflight[Encoding].elapsed = 10
    /\ blobs = EmptyMap

\* The registry once every startup registration has returned.
FrozenRegistry == RegistryAfter(Len(StartupRegistrations))

C25_QualityNormalised ==
    /\ last.op = "NewImageProcessor"
       => last.att.Size = (IF last.file.Size \in 0..100 THEN last.file.Size ELSE 85)
    /\ last.op = "NewVideoConverter"
       => last.att.Size = (IF last.file.Size \in 0..51 THEN last.file.Size ELSE 23)

\* C26: ActiveStorage.Delete leaves the state unchanged on error: when it
\* returns an error, the blob and the row of the attachment are as they
\* were before the call.
C26_DeleteUnchangedOnError ==
    [][(last'.op = "Delete" /\ last'.err # "")
       => (rows' = rows /\ blobs' = blobs)]_vars

\* C27: replacing a media file keeps the old file on failure: if UpdateFile,
\* or Update with a file, returns an error for an item that had a file, the
\* previous blob and its attachment row still exist after the call.
C27_ReplaceKeepsOldFile ==
    [][(/\ last'.op \in {"UpdateFile", "Update"}
        /\ last'.file # NoFile
        /\ last'.err # ""
        /\ last'.att \in LiveRows
        /\ last'.att.Path \in DOMAIN blobs)
       => (last'.att \in rows' /\ last'.att.Path \in DOMAIN blobs')]_vars

\* C28: Create is all-or-nothing: when it returns an error, no media row,
\* no attachment row and no blob that the call created remain.
C28_CreateAllOrNothing ==
    [][(last'.op = "Create" /\ last'.err # "")
       => /\ media'.items = media.items
          /\ rows' = rows
          /\ blobs' = blobs]_vars

\* The operations of MediaService that begin a transaction.
MediaOps == {"Create", "Update", "Delete media", "UpdateFile", "RemoveFile"}

\* The number of calls of this name and argument the last operation made.
Count(call, arg) ==
    Cardinality({i \in DOMAIN last.calls : last.calls[i] = Call(call, arg)})

\* C29: every transaction a MediaService operation begins is committed or
\* rolled back before the operation returns, on every return path.
C29_TransactionsClosed ==
    last.op \in MediaOps
    => Count("tx.Begin", "")
         = Count("tx.Commit", "") + Count("tx.Commit", "failed") + Count("tx.Rollback", "")

\* C30: SyncFromR2 is idempotent over an unchanged bucket: a run counts
\* every listed key that already has an attachment row as skipped and
\* creates no further media or attachment row for it, and no two
\* attachment rows share a Path.
C30_SyncIdempotent ==
    /\ [][(last'.op = "SyncFromR2" /\ last'.err = "")
          => \A k \in DOMAIN blobs :
                (/\ ~HasSuffix(k, "/")
                 /\ HasPrefix(k, last'.file.Filename)
                 /\ \E r \in rows : r.Path = k)
                => /\ \E i \in DOMAIN last'.calls : last'.calls[i] = Call("skipped", k)
                   /\ {r \in rows' : r.Path = k} = {r \in rows : r.Path = k}]_vars
    /\ [](\A r1, r2 \in rows : r1.Path = r2.Path => r1 = r2)

====
